---- MODULE Spec2Model ----
(***************************************************************************)
(* The table-driven Vietnamese input engine (UnikeyEngine): the rolling    *)
(* key buffer, the character tables, and process() with the routines it    *)
(* dispatches to.  Characters are one-character strings; buffer positions  *)
(* are 0-based as in the source and read through At.                       *)
(***************************************************************************)
EXTENDS Integers, Sequences, FiniteSets, TLC

VARIABLES
    keys, buf, lower_case,
    last_w_converted, last_is_escape, temp_viet_off,
    input_method, vietnamese_mode, free_marking, tone_next_to_vowel, modern_style,
    keys_pushed, backs, output_buffer,
    dt, bd,
    result, last, screen, typed, budget,
    INJECTING, grab_events, key_rx, action_rx, callback, injections,
    current_buffer, acted, events_seen, pressed

engine_vars ==
    << keys, buf, lower_case, last_w_converted, last_is_escape, temp_viet_off,
       input_method, vietnamese_mode, free_marking, tone_next_to_vowel, modern_style,
       keys_pushed, backs, output_buffer >>

\* The lookup tables of the engine, filled by new() and never written again.
table_vars == << dt, bd >>

\* The keyboard host of src/keyboard/mod.rs.
host_vars ==
    << INJECTING, grab_events, key_rx, action_rx, callback, injections,
       current_buffer, acted, events_seen, pressed >>

vars == << engine_vars, table_vars, result, last, screen, typed, budget, host_vars >>

\* ---------------------------------------------------------------- constants

KEY_BUFSIZE == 40
KEYS_MAINTAIN == 20
MAX_AFTER_VOWEL == 2
MAX_VOWEL_SEQUENCE == 3
MAX_MODIFY_LENGTH == 6

InputMethod == {"Telex", "Vni", "Viqr"}

KeyCategory ==
    {"None", "BreveMark", "ToneMark", "DoubleKey", "ShortKey", "VowelChar",
     "Separator", "VniDoubleMark", "EscapeKey", "SoftSeparator"}

\* CharAttr::default()
CharAttr ==
    [vowel_index |-> 0, is_breve |-> FALSE, tone_index |-> 0, dbchar_index |-> 0,
     macro_index |-> 0, is_separator |-> FALSE, is_soft_sep |-> FALSE,
     vni_double_index |-> 0, current_tone |-> 0]

Range(s) == {s[i] : i \in DOMAIN s}

\* ---------------------------------------------------------------- characters

\* The letters of Latin Extended-A, named by code point.
\* the grave accent key
backtick == "U+0060"

\* ă
a_breve == "U+0103"

\* Ă
A_breve == "U+0102"

\* đ
d_stroke == "U+0111"

\* Đ
D_stroke == "U+0110"

\* ĩ
i_tilde == "U+0129"

\* Ĩ
I_tilde == "U+0128"

\* ũ
u_tilde == "U+0169"

\* Ũ
U_tilde == "U+0168"

\* ------------------------------------------------- char methods of the std

\* Lower/upper case pairs of every letter the tables or the keyboard hold.
CasePairs ==
    << <<"a", "A">>, <<"b", "B">>, <<"c", "C">>, <<"d", "D">>, <<"e", "E">>, <<"f", "F">>, <<"g", "G">>, <<"h", "H">>,
       <<"i", "I">>, <<"j", "J">>, <<"k", "K">>, <<"l", "L">>, <<"m", "M">>, <<"n", "N">>, <<"o", "O">>, <<"p", "P">>,
       <<"q", "Q">>, <<"r", "R">>, <<"s", "S">>, <<"t", "T">>, <<"u", "U">>, <<"v", "V">>, <<"w", "W">>, <<"x", "X">>,
       <<"y", "Y">>, <<"z", "Z">>, <<"à", "À">>, <<"á", "Á">>, <<"â", "Â">>, <<"ã", "Ã">>, <<"è", "È">>, <<"é", "É">>,
       <<"ê", "Ê">>, <<"ì", "Ì">>, <<"í", "Í">>, <<"ò", "Ò">>, <<"ó", "Ó">>, <<"ô", "Ô">>, <<"õ", "Õ">>, <<"ù", "Ù">>,
       <<"ú", "Ú">>, <<"ý", "Ý">>, <<a_breve, A_breve>>, <<d_stroke, D_stroke>>, <<i_tilde, I_tilde>>, <<u_tilde, U_tilde>>, <<"ơ", "Ơ">>, <<"ư", "Ư">>,
       <<"ạ", "Ạ">>, <<"ả", "Ả">>, <<"ấ", "Ấ">>, <<"ầ", "Ầ">>, <<"ẩ", "Ẩ">>, <<"ẫ", "Ẫ">>, <<"ậ", "Ậ">>, <<"ắ", "Ắ">>,
       <<"ằ", "Ằ">>, <<"ẳ", "Ẳ">>, <<"ẵ", "Ẵ">>, <<"ặ", "Ặ">>, <<"ẹ", "Ẹ">>, <<"ẻ", "Ẻ">>, <<"ẽ", "Ẽ">>, <<"ế", "Ế">>,
       <<"ề", "Ề">>, <<"ể", "Ể">>, <<"ễ", "Ễ">>, <<"ệ", "Ệ">>, <<"ỉ", "Ỉ">>, <<"ị", "Ị">>, <<"ọ", "Ọ">>, <<"ỏ", "Ỏ">>,
       <<"ố", "Ố">>, <<"ồ", "Ồ">>, <<"ổ", "Ổ">>, <<"ỗ", "Ỗ">>, <<"ộ", "Ộ">>, <<"ớ", "Ớ">>, <<"ờ", "Ờ">>, <<"ở", "Ở">>,
       <<"ỡ", "Ỡ">>, <<"ợ", "Ợ">>, <<"ụ", "Ụ">>, <<"ủ", "Ủ">>, <<"ứ", "Ứ">>, <<"ừ", "Ừ">>, <<"ử", "Ử">>, <<"ữ", "Ữ">>,
       <<"ự", "Ự">>, <<"ỳ", "Ỳ">>, <<"ỵ", "Ỵ">>, <<"ỷ", "Ỷ">>, <<"ỹ", "Ỹ">> >>

lowercase_letters == {p[1] : p \in Range(CasePairs)}

uppercase_letters == {p[2] : p \in Range(CasePairs)}

ascii_letters ==
    { "a", "b", "c", "d", "e", "f", "g", "h", "i", "j", "k", "l", "m",
      "n", "o", "p", "q", "r", "s", "t", "u", "v", "w", "x", "y", "z",
      "A", "B", "C", "D", "E", "F", "G", "H", "I", "J", "K", "L", "M",
      "N", "O", "P", "Q", "R", "S", "T", "U", "V", "W", "X", "Y", "Z" }

letters == {p[k] : p \in Range(CasePairs), k \in {1, 2}}

\* The other letter of the pair that holds c at place `from`, or c itself.
case_mapped(pairs, c, from, to) ==
    IF \E p \in Range(pairs) : p[from] = c
    THEN (CHOOSE p \in Range(pairs) : p[from] = c)[to]
    ELSE c

is_lowercase(c) == c \in lowercase_letters

is_uppercase(c) == c \in uppercase_letters

is_alphabetic(c) == c \in letters

is_ascii_alphabetic(c) == c \in ascii_letters

\* c.to_lowercase().next().unwrap_or(c)
to_lowercase(c) == case_mapped(CasePairs, c, 2, 1)

\* A to_uppercase that leaves every character as it is.
to_uppercase_same(c) == c

\* c.to_uppercase().next().unwrap_or(c)
to_uppercase(c) == case_mapped(CasePairs, c, 1, 2)

\* Letters whose UTF-8 encoding takes two bytes, and three bytes.
TwoByteChars ==
    { "À", "Á", "Â", "Ã", "È", "É", "Ê", "Ì", "Í", "Ò", "Ó", "Ô", "Õ", "Ù", "Ú", "Ý",
      "à", "á", "â", "ã", "è", "é", "ê", "ì", "í", "ò", "ó", "ô", "õ", "ù", "ú", "ý",
      A_breve, a_breve, D_stroke, d_stroke, I_tilde, i_tilde, U_tilde, u_tilde, "Ơ", "ơ", "Ư", "ư" }

ThreeByteChars ==
    { "Ạ", "ạ", "Ả", "ả", "Ấ", "ấ", "Ầ", "ầ", "Ẩ", "ẩ", "Ẫ", "ẫ", "Ậ", "ậ", "Ắ", "ắ",
      "Ằ", "ằ", "Ẳ", "ẳ", "Ẵ", "ẵ", "Ặ", "ặ", "Ẹ", "ẹ", "Ẻ", "ẻ", "Ẽ", "ẽ", "Ế", "ế",
      "Ề", "ề", "Ể", "ể", "Ễ", "ễ", "Ệ", "ệ", "Ỉ", "ỉ", "Ị", "ị", "Ọ", "ọ", "Ỏ", "ỏ",
      "Ố", "ố", "Ồ", "ồ", "Ổ", "ổ", "Ỗ", "ỗ", "Ộ", "ộ", "Ớ", "ớ", "Ờ", "ờ", "Ở", "ở",
      "Ỡ", "ỡ", "Ợ", "ợ", "Ụ", "ụ", "Ủ", "ủ", "Ứ", "ứ", "Ừ", "ừ", "Ử", "ử", "Ữ", "ữ",
      "Ự", "ự", "Ỳ", "ỳ", "Ỵ", "ỵ", "Ỷ", "ỷ", "Ỹ", "ỹ" }

len_utf8(c) == IF c \in TwoByteChars THEN 2 ELSE IF c \in ThreeByteChars THEN 3 ELSE 1

RECURSIVE string_len(_)
\* String::len: the length in bytes
string_len(s) == IF s = << >> THEN 0 ELSE len_utf8(Head(s)) + string_len(Tail(s))

\* ------------------------------------------------------------ lookup tables

vowel_base ==
    << <<"a", 1>>, <<"A", 1>>,
       <<"e", 4>>, <<"E", 4>>,
       <<"i", 6>>, <<"I", 6>>,
       <<"o", 7>>, <<"O", 7>>,
       <<"u", 10>>, <<"U", 10>>,
       <<"y", 12>>, <<"Y", 12>> >>

vn_vowels ==
    << <<"â", 2, 0>>, <<"ấ", 2, 1>>, <<"ầ", 2, 2>>, <<"ẩ", 2, 3>>, <<"ẫ", 2, 4>>, <<"ậ", 2, 5>>,
       <<"Â", 2, 0>>, <<"Ấ", 2, 1>>, <<"Ầ", 2, 2>>, <<"Ẩ", 2, 3>>, <<"Ẫ", 2, 4>>, <<"Ậ", 2, 5>>,
       <<a_breve, 3, 0>>, <<"ắ", 3, 1>>, <<"ằ", 3, 2>>, <<"ẳ", 3, 3>>, <<"ẵ", 3, 4>>, <<"ặ", 3, 5>>,
       <<A_breve, 3, 0>>, <<"Ắ", 3, 1>>, <<"Ằ", 3, 2>>, <<"Ẳ", 3, 3>>, <<"Ẵ", 3, 4>>, <<"Ặ", 3, 5>>,
       <<"ê", 5, 0>>, <<"ế", 5, 1>>, <<"ề", 5, 2>>, <<"ể", 5, 3>>, <<"ễ", 5, 4>>, <<"ệ", 5, 5>>,
       <<"Ê", 5, 0>>, <<"Ế", 5, 1>>, <<"Ề", 5, 2>>, <<"Ể", 5, 3>>, <<"Ễ", 5, 4>>, <<"Ệ", 5, 5>>,
       <<"ô", 8, 0>>, <<"ố", 8, 1>>, <<"ồ", 8, 2>>, <<"ổ", 8, 3>>, <<"ỗ", 8, 4>>, <<"ộ", 8, 5>>,
       <<"Ô", 8, 0>>, <<"Ố", 8, 1>>, <<"Ồ", 8, 2>>, <<"Ổ", 8, 3>>, <<"Ỗ", 8, 4>>, <<"Ộ", 8, 5>>,
       <<"ơ", 9, 0>>, <<"ớ", 9, 1>>, <<"ờ", 9, 2>>, <<"ở", 9, 3>>, <<"ỡ", 9, 4>>, <<"ợ", 9, 5>>,
       <<"Ơ", 9, 0>>, <<"Ớ", 9, 1>>, <<"Ờ", 9, 2>>, <<"Ở", 9, 3>>, <<"Ỡ", 9, 4>>, <<"Ợ", 9, 5>>,
       <<"ư", 11, 0>>, <<"ứ", 11, 1>>, <<"ừ", 11, 2>>, <<"ử", 11, 3>>, <<"ữ", 11, 4>>, <<"ự", 11, 5>>,
       <<"Ư", 11, 0>>, <<"Ứ", 11, 1>>, <<"Ừ", 11, 2>>, <<"Ử", 11, 3>>, <<"Ữ", 11, 4>>, <<"Ự", 11, 5>>,
       <<"á", 1, 1>>, <<"à", 1, 2>>, <<"ả", 1, 3>>, <<"ã", 1, 4>>, <<"ạ", 1, 5>>,
       <<"Á", 1, 1>>, <<"À", 1, 2>>, <<"Ả", 1, 3>>, <<"Ã", 1, 4>>, <<"Ạ", 1, 5>>,
       <<"é", 4, 1>>, <<"è", 4, 2>>, <<"ẻ", 4, 3>>, <<"ẽ", 4, 4>>, <<"ẹ", 4, 5>>,
       <<"É", 4, 1>>, <<"È", 4, 2>>, <<"Ẻ", 4, 3>>, <<"Ẽ", 4, 4>>, <<"Ẹ", 4, 5>>,
       <<"í", 6, 1>>, <<"ì", 6, 2>>, <<"ỉ", 6, 3>>, <<i_tilde, 6, 4>>, <<"ị", 6, 5>>,
       <<"Í", 6, 1>>, <<"Ì", 6, 2>>, <<"Ỉ", 6, 3>>, <<I_tilde, 6, 4>>, <<"Ị", 6, 5>>,
       <<"ó", 7, 1>>, <<"ò", 7, 2>>, <<"ỏ", 7, 3>>, <<"õ", 7, 4>>, <<"ọ", 7, 5>>,
       <<"Ó", 7, 1>>, <<"Ò", 7, 2>>, <<"Ỏ", 7, 3>>, <<"Õ", 7, 4>>, <<"Ọ", 7, 5>>,
       <<"ú", 10, 1>>, <<"ù", 10, 2>>, <<"ủ", 10, 3>>, <<u_tilde, 10, 4>>, <<"ụ", 10, 5>>,
       <<"Ú", 10, 1>>, <<"Ù", 10, 2>>, <<"Ủ", 10, 3>>, <<U_tilde, 10, 4>>, <<"Ụ", 10, 5>>,
       <<"ý", 12, 1>>, <<"ỳ", 12, 2>>, <<"ỷ", 12, 3>>, <<"ỹ", 12, 4>>, <<"ỵ", 12, 5>>,
       <<"Ý", 12, 1>>, <<"Ỳ", 12, 2>>, <<"Ỷ", 12, 3>>, <<"Ỹ", 12, 4>>, <<"Ỵ", 12, 5>> >>

tone_keys ==
    << <<"s", 1>>, <<"S", 1>>,
       <<"f", 2>>, <<"F", 2>>,
       <<"r", 3>>, <<"R", 3>>,
       <<"x", 4>>, <<"X", 4>>,
       <<"j", 5>>, <<"J", 5>> >>

separators ==
    << " ", "\n", "\r", "\t", ".", ",", ";", ":", "!", "?",
       "(", ")", "[", "]", "{", "}", "<", ">", "/", "\\",
       "\"", "'", "-", "_", "+", "=", "@", "#", "$", "%",
       "^", "&", "*", "|", backtick, "~", "0", "1", "2", "3",
       "4", "5", "6", "7", "8", "9" >>

\* The entry (c, ..) of a table
Entry(table, c) == CHOOSE t \in Range(table) : t[1] = c

\* The characters a table has entries for
Chars(table) == {t[1] : t \in Range(table)}

\* The inserts of init_dt_table, one function per loop.
dt_vowel_base ==
    [c \in Chars(vowel_base) |->
        [CharAttr EXCEPT !.vowel_index = Entry(vowel_base, c)[2],
                         !.dbchar_index = Entry(vowel_base, c)[2]]]

\* A dt_vn_vowels that records no tone.
dt_vn_vowels_untoned ==
    [c \in Chars(vn_vowels) |-> [CharAttr EXCEPT !.vowel_index = Entry(vn_vowels, c)[2]]]

dt_vn_vowels ==
    [c \in Chars(vn_vowels) |->
        [CharAttr EXCEPT !.vowel_index = Entry(vn_vowels, c)[2],
                         !.current_tone = Entry(vn_vowels, c)[3]]]

dt_tone_keys ==
    [c \in Chars(tone_keys) |-> [CharAttr EXCEPT !.tone_index = Entry(tone_keys, c)[2]]]

dt_breve == [c \in {"w", "W"} |-> [CharAttr EXCEPT !.is_breve = TRUE, !.macro_index = 1]]

dt_d == [c \in {"d", "D"} |-> [CharAttr EXCEPT !.dbchar_index = 2]]

dt_separators == [c \in Range(separators) |-> [CharAttr EXCEPT !.is_separator = TRUE]]

dt_dstroke == [c \in {d_stroke, D_stroke} |-> [CharAttr EXCEPT !.dbchar_index = 2]]

\* A later insert replaces an earlier one of the same key.
dt_inserted ==
    dt_dstroke @@ dt_separators @@ dt_d @@ dt_breve @@ dt_tone_keys @@ dt_vn_vowels
        @@ dt_vowel_base

\* The get_mut updates of a, e, o: the letters Telex doubles.
set_dbchar_index(table) ==
    [c \in DOMAIN table |->
        IF c \in {"a", "A"} THEN [table[c] EXCEPT !.dbchar_index = 1]
        ELSE IF c \in {"e", "E"} THEN [table[c] EXCEPT !.dbchar_index = 3]
        ELSE IF c \in {"o", "O"} THEN [table[c] EXCEPT !.dbchar_index = 4]
        ELSE table[c]]

\* The DT table after init_dt_table.
init_dt_table == set_dbchar_index(dt_inserted)

\* self.dt.get(&c).copied().unwrap_or_default()
dt_get(c) == IF c \in DOMAIN dt THEN dt[c] ELSE CharAttr

\* BD[vowel_index - 1][tone_index - 1]; the sixth entry is the untoned form.
init_bd_table ==
    << <<"á", "à", "ả", "ã", "ạ", "a">>,
       <<"ấ", "ầ", "ẩ", "ẫ", "ậ", "â">>,
       <<"ắ", "ằ", "ẳ", "ẵ", "ặ", a_breve>>,
       <<"é", "è", "ẻ", "ẽ", "ẹ", "e">>,
       <<"ế", "ề", "ể", "ễ", "ệ", "ê">>,
       <<"í", "ì", "ỉ", i_tilde, "ị", "i">>,
       <<"ó", "ò", "ỏ", "õ", "ọ", "o">>,
       <<"ố", "ồ", "ổ", "ỗ", "ộ", "ô">>,
       <<"ớ", "ờ", "ở", "ỡ", "ợ", "ơ">>,
       <<"ú", "ù", "ủ", u_tilde, "ụ", "u">>,
       <<"ứ", "ừ", "ử", "ữ", "ự", "ư">>,
       <<"ý", "ỳ", "ỷ", "ỹ", "ỵ", "y">> >>

bk == <<d_stroke, D_stroke, "â", "Â", "ê", "Ê", "ô", "Ô">>

bw == <<a_breve, A_breve, "ơ", "Ơ", "ư", "Ư">>

bt == <<"ơ", "Ơ", "ư", "Ư">>

\* buf[i] with the source's 0-based index
At(s, i) == s[i + 1]

\* ergonomic 0-based slot write
SetAt(s, i, v) == [s EXCEPT ![i + 1] = v]

\* ------------------------------------------------------------ the engine

\* The engine's fields as one record; buf and lower_case hold the first
\* `keys` slots of the arrays (what get_buffer shows).
Self ==
    [keys |-> keys, buf |-> buf, lower_case |-> lower_case,
     last_w_converted |-> last_w_converted, last_is_escape |-> last_is_escape,
     temp_viet_off |-> temp_viet_off, input_method |-> input_method,
     vietnamese_mode |-> vietnamese_mode, free_marking |-> free_marking,
     tone_next_to_vowel |-> tone_next_to_vowel, modern_style |-> modern_style,
     keys_pushed |-> keys_pushed, backs |-> backs, output_buffer |-> output_buffer]

\* UnikeyEngine::new()
new ==
    [keys |-> 0, buf |-> << >>, lower_case |-> << >>,
     last_w_converted |-> FALSE, last_is_escape |-> FALSE, temp_viet_off |-> FALSE,
     input_method |-> "Telex", vietnamese_mode |-> TRUE, free_marking |-> TRUE,
     tone_next_to_vowel |-> FALSE, modern_style |-> TRUE,
     keys_pushed |-> 0, backs |-> 0, output_buffer |-> << >>]

\* '\x08'
backspace == "\\x08"

Max(a, b) == IF a >= b THEN a ELSE b

\* A clear_buf that resets the latches and leaves the buffer.
clear_buf_flags(e) ==
    [e EXCEPT !.last_w_converted = FALSE, !.last_is_escape = FALSE,
              !.temp_viet_off = FALSE, !.output_buffer = << >>]

clear_buf(e) ==
    [e EXCEPT !.keys = 0, !.buf = << >>, !.lower_case = << >>,
              !.last_w_converted = FALSE, !.last_is_escape = FALSE,
              !.temp_viet_off = FALSE, !.output_buffer = << >>]

key_category(e, c) ==
    LET attr == dt_get(c)
    IN  IF attr.is_breve /\ e.input_method = "Telex" THEN "BreveMark"
        ELSE IF attr.tone_index > 0 /\ e.input_method = "Telex" THEN "ToneMark"
        ELSE IF attr.dbchar_index > 0 /\ e.input_method = "Telex" THEN "DoubleKey"
        ELSE IF attr.macro_index > 0 THEN "ShortKey"
        ELSE IF attr.is_separator THEN "Separator"
        ELSE IF attr.vni_double_index > 0 /\ e.input_method = "Vni" THEN "VniDoubleMark"
        ELSE IF c = "\\" /\ e.input_method = "Viqr" THEN "EscapeKey"
        ELSE IF attr.is_soft_sep THEN "SoftSeparator"
        ELSE "None"

\* A throw_buf that keeps nothing of a full buffer.
throw_buf_all(e) ==
    [e EXCEPT !.buf = << >>, !.lower_case = << >>, !.keys = 0]

\* A throw_buf that keeps the oldest entries.
throw_buf_head(e) ==
    IF e.keys > KEYS_MAINTAIN
    THEN [e EXCEPT !.buf = SubSeq(e.buf, 1, KEYS_MAINTAIN),
                   !.lower_case = SubSeq(e.lower_case, 1, KEYS_MAINTAIN),
                   !.keys = KEYS_MAINTAIN]
    ELSE e

throw_buf(e) ==
    IF e.keys > KEYS_MAINTAIN
    THEN LET start == e.keys - KEYS_MAINTAIN
         IN  [e EXCEPT !.buf = SubSeq(e.buf, start + 1, start + KEYS_MAINTAIN),
                       !.lower_case = SubSeq(e.lower_case, start + 1, start + KEYS_MAINTAIN),
                       !.keys = KEYS_MAINTAIN]
    ELSE e

\* A put_char that writes the new entry in front of the others.
put_char_front(e, c, is_lower) ==
    LET e1 == IF e.keys >= KEY_BUFSIZE THEN throw_buf(e) ELSE e
    IN  [e1 EXCEPT !.lower_case = << is_lower >> \o e1.lower_case,
                   !.buf = << c >> \o e1.buf,
                   !.keys = e1.keys + 1]

\* A put_char that compacts only once the buffer is past its capacity.
put_char_late(e, c, is_lower) ==
    LET e1 == IF e.keys > KEY_BUFSIZE THEN throw_buf(e) ELSE e
    IN  [e1 EXCEPT !.lower_case = Append(e1.lower_case, is_lower),
                   !.buf = Append(e1.buf, c),
                   !.keys = e1.keys + 1]

put_char(e, c, is_lower) ==
    LET e1 == IF e.keys >= KEY_BUFSIZE THEN throw_buf(e) ELSE e
    IN  [e1 EXCEPT !.lower_case = Append(e1.lower_case, is_lower),
                   !.buf = Append(e1.buf, c),
                   !.keys = e1.keys + 1]

process_backspace(e) ==
    IF e.keys > 0
    THEN [e EXCEPT !.keys = e.keys - 1,
                   !.buf = SubSeq(e.buf, 1, e.keys - 1),
                   !.lower_case = SubSeq(e.lower_case, 1, e.keys - 1),
                   !.backs = 1]
    ELSE e

get_base_vowel(c) ==
    LET attr == dt_get(c)
    IN  IF attr.vowel_index = 0 \/ attr.vowel_index > 12 THEN c
        ELSE LET base == At(At(bd, attr.vowel_index - 1), 5)
             IN  IF is_uppercase(c) THEN to_uppercase(base) ELSE base

\* An apply_tone_to_base that drops the tone.
apply_tone_to_base_none(base, tone) == base

apply_tone_to_base(base, tone) ==
    LET attr == dt_get(base)
    IN  IF attr.vowel_index = 0 \/ attr.vowel_index > 12 \/ tone = 0 \/ tone > 5 THEN base
        ELSE LET toned == At(At(bd, attr.vowel_index - 1), tone - 1)
             IN  IF is_uppercase(base) THEN to_uppercase(toned) ELSE toned

\* A rebuild_output that starts one slot too far to the right.
rebuild_output_tail(e, from_pos) ==
    [e EXCEPT !.output_buffer = SubSeq(e.buf, from_pos + 2, e.keys)]

rebuild_output(e, from_pos) ==
    [e EXCEPT !.output_buffer = SubSeq(e.buf, from_pos + 1, e.keys)]

\* A push that loses the character.
push_output_none(e, c) == e

\* A push that writes the character twice.
push_output_twice(e, c) == [e EXCEPT !.output_buffer = Append(Append(e.output_buffer, c), c)]

\* self.output_buffer.push(c)
push_output(e, c) == [e EXCEPT !.output_buffer = Append(e.output_buffer, c)]

\* A short_key without the duplicate test: the character is always appended.
short_key_append(e, c, is_lower) ==
    LET cl == to_lowercase(c)
    IN  IF cl \notin {"w", "[", "]"} THEN e
        ELSE LET new_char == IF cl = "w" THEN (IF is_lower THEN "ư" ELSE "Ư")
                             ELSE IF cl = "[" THEN "ơ" ELSE "Ơ"
             IN  [put_char(push_output(e, new_char), new_char, is_lower)
                     EXCEPT !.keys_pushed = 1]

short_key(e, c, is_lower) ==
    LET cl == to_lowercase(c)
    IN  IF cl \notin {"w", "[", "]"} THEN e
        ELSE LET new_char == IF cl = "w" THEN (IF is_lower THEN "ư" ELSE "Ư")
                             ELSE IF cl = "[" THEN "ơ" ELSE "Ơ"
             IN  IF e.keys > 0 /\ At(e.buf, e.keys - 1) = new_char
                 THEN [push_output([e EXCEPT !.backs = 1,
                                             !.buf = SetAt(e.buf, e.keys - 1, c)], c)
                          EXCEPT !.temp_viet_off = TRUE, !.keys_pushed = 1]
                 ELSE [put_char(push_output(e, new_char), new_char, is_lower)
                          EXCEPT !.keys_pushed = 1]

\* The body of the two undo arms of double_char, which differ in `original`.
double_undo(e, c, is_lower, original) ==
    [put_char(push_output(push_output(
                 [e EXCEPT !.backs = 1, !.buf = SetAt(e.buf, e.keys - 1, original)],
                 original), c), c, is_lower)
        EXCEPT !.temp_viet_off = TRUE, !.keys_pushed = 2]

double_char(e, c, is_lower) ==
    IF e.keys = 0 THEN e
    ELSE
    LET last_char == At(e.buf, e.keys - 1)
        last_lower == to_lowercase(last_char)
        c_lower == to_lowercase(c)
    IN  IF last_lower # c_lower THEN e
        ELSE IF c_lower \notin {"a", "e", "o", "d"} THEN e
        ELSE
        LET target == IF c_lower = "a" THEN (IF is_lower THEN "â" ELSE "Â")
                      ELSE IF c_lower = "e" THEN (IF is_lower THEN "ê" ELSE "Ê")
                      ELSE IF c_lower = "o" THEN (IF is_lower THEN "ô" ELSE "Ô")
                      ELSE (IF is_lower THEN d_stroke ELSE D_stroke)
            last_attr == dt_get(last_char)
            last_base == get_base_vowel(last_char)
        IN  IF last_attr.vowel_index > 0 /\ to_lowercase(last_base) # c_lower
            THEN double_undo(e, c, is_lower,
                             IF is_lower THEN c_lower ELSE to_uppercase(c_lower))
            ELSE IF to_lowercase(last_base) = to_lowercase(target)
            THEN double_undo(e, c, is_lower,
                             IF At(e.lower_case, e.keys - 1) THEN c_lower
                             ELSE to_uppercase(c_lower))
            ELSE
            LET new_char == IF last_attr.current_tone > 0
                            THEN apply_tone_to_base(target, last_attr.current_tone)
                            ELSE target
            IN  [push_output([e EXCEPT !.backs = 1,
                                       !.buf = SetAt(e.buf, e.keys - 1, new_char)],
                             new_char)
                    EXCEPT !.keys_pushed = 1]

RECURSIVE breve_scan(_, _, _, _, _)
\* The while loop of put_breve_mark, from position i down to left_most.
breve_scan(e, c, is_lower, i, left_most) ==
    IF i < left_most THEN e
    ELSE
    LET buf_char == At(e.buf, i)
        attr == dt_get(buf_char)
        base_vowel == get_base_vowel(buf_char)
        base_lower == to_lowercase(base_vowel)
        target_char == IF base_lower = "a" THEN (IF is_lower THEN a_breve ELSE A_breve)
                       ELSE IF base_lower = "o" THEN (IF is_lower THEN "ơ" ELSE "Ơ")
                       ELSE (IF is_lower THEN "ư" ELSE "Ư")
    IN  IF attr.vowel_index > 0
        THEN IF base_lower \notin {"a", "o", "u"}
             THEN breve_scan(e, c, is_lower, i - 1, left_most)
             ELSE IF buf_char = target_char
             THEN [put_char(push_output(rebuild_output(
                               [e EXCEPT !.backs = e.keys - i,
                                         !.buf = SetAt(e.buf, i, base_vowel)], i), c),
                            c, is_lower)
                      EXCEPT !.temp_viet_off = TRUE]
             ELSE LET new_char == IF attr.current_tone > 0
                                  THEN apply_tone_to_base(target_char, attr.current_tone)
                                  ELSE target_char
                      e1 == rebuild_output([e EXCEPT !.backs = e.keys - i,
                                                     !.buf = SetAt(e.buf, i, new_char)], i)
                  IN  [e1 EXCEPT !.keys_pushed = string_len(e1.output_buffer)]
        ELSE IF attr.is_separator \/ attr.is_soft_sep THEN e
        ELSE breve_scan(e, c, is_lower, i - 1, left_most)

put_breve_mark(e, c, is_lower) ==
    IF e.keys = 0 THEN e
    ELSE LET left_most == Max(IF e.free_marking THEN 0 ELSE e.keys - 1,
                              e.keys - MAX_MODIFY_LENGTH)
         IN  breve_scan(e, c, is_lower, e.keys - 1, left_most)

\* A left_most that lets the first loop scan the whole buffer.
tone_left_most_free(e) == 0

\* The leftmost slot the first loop of put_tone_mark looks at.
tone_left_most(e) ==
    Max(IF e.tone_next_to_vowel THEN e.keys - 1 ELSE 0, e.keys - 1 - MAX_AFTER_VOWEL)

RECURSIVE tone_find_vowel(_, _, _)
\* The first loop of put_tone_mark: the first vowel (or separator) from the right.
tone_find_vowel(e, i, left_most) ==
    IF i < left_most THEN i
    ELSE LET attr == dt_get(At(e.buf, i))
         IN  IF attr.is_separator \/ attr.is_soft_sep \/ attr.vowel_index > 0 THEN i
             ELSE tone_find_vowel(e, i - 1, left_most)

RECURSIVE tone_vowel_run(_, _, _)
\* The second loop of put_tone_mark: leftwards over the consecutive vowels.
tone_vowel_run(e, i, left_most) ==
    IF i < left_most THEN i
    ELSE LET base_char == At(e.buf, i)
             attr == dt_get(base_char)
         IN  IF attr.vowel_index = 0 THEN i
             ELSE IF is_alphabetic(base_char) /\ ~is_ascii_alphabetic(base_char) THEN i
             ELSE tone_vowel_run(e, i - 1, left_most)

\* A tone_target_pos that always takes the last vowel of the run.
tone_target_pos_last(e, end_pos, i) == end_pos

\* A tone_target_pos that knows no diphthong and no glide: the traditional rule.
tone_target_pos_traditional(e, end_pos, i) ==
    IF end_pos - i = 2 \/ end_pos - i = 3 THEN end_pos - 1 ELSE end_pos

\* The match on vowel_seq_len of put_tone_mark; i is where the run scan stopped.
tone_target_pos(e, end_pos, i) ==
    LET vowel_seq_len == end_pos - i
    IN  IF vowel_seq_len = 2
        THEN IF e.modern_style
             THEN LET v1 == to_lowercase(At(e.buf, end_pos - 1))
                      v2 == to_lowercase(At(e.buf, end_pos))
                  IN  IF (v1 = "o" /\ v2 = "a") \/ (v1 = "o" /\ v2 = "e")
                            \/ (v1 = "u" /\ v2 = "y")
                      THEN end_pos
                      ELSE IF i >= 0
                      THEN LET prev == to_uppercase(At(e.buf, i))
                           IN  IF prev = "Q"
                                    \/ (prev = "G" /\ i + 1 < e.keys
                                        /\ to_uppercase(At(e.buf, i + 1)) = "I")
                               THEN end_pos
                               ELSE IF e.keys > end_pos + 1 THEN end_pos
                               ELSE end_pos - 1
                      ELSE end_pos - 1
             ELSE end_pos - 1
        ELSE IF vowel_seq_len = 3 THEN end_pos - 1
        ELSE end_pos

\* Lines 682-730 of put_tone_mark: rewrite the vowel at target_pos.
tone_apply(e, c, is_lower, tone_index, target_pos) ==
    LET vowel_char == At(e.buf, target_pos)
        vowel_attr == dt_get(vowel_char)
        vowel_idx == vowel_attr.vowel_index
        current_tone == vowel_attr.current_tone
    IN  IF vowel_idx = 0 \/ vowel_idx > 12 THEN e
        ELSE IF current_tone = tone_index
        THEN LET base == At(At(bd, vowel_idx - 1), 5)
                 new_char == IF is_uppercase(vowel_char) THEN to_uppercase(base) ELSE base
             IN  [put_char(push_output(rebuild_output(
                               [e EXCEPT !.backs = e.keys - target_pos,
                                         !.buf = SetAt(e.buf, target_pos, new_char)],
                               target_pos), c), c, is_lower)
                     EXCEPT !.temp_viet_off = TRUE]
        ELSE LET base == get_base_vowel(vowel_char)
                 base_attr == dt_get(base)
                 base_idx == IF base_attr.vowel_index > 0 THEN base_attr.vowel_index
                             ELSE vowel_idx
             IN  IF base_idx = 0 \/ base_idx > 12 THEN e
                 ELSE LET toned == At(At(bd, base_idx - 1), tone_index - 1)
                          new_char == IF is_uppercase(vowel_char) THEN to_uppercase(toned)
                                      ELSE toned
                          e1 == rebuild_output(
                                    [e EXCEPT !.backs = e.keys - target_pos,
                                              !.buf = SetAt(e.buf, target_pos, new_char)],
                                    target_pos)
                      IN  [e1 EXCEPT !.keys_pushed = string_len(e1.output_buffer)]

put_tone_mark(e, c, is_lower) ==
    IF e.keys = 0 THEN e
    ELSE
    LET cl == to_lowercase(c)
        tone_index == IF cl = "s" THEN 1 ELSE IF cl = "f" THEN 2 ELSE IF cl = "r" THEN 3
                      ELSE IF cl = "x" THEN 4 ELSE IF cl = "j" THEN 5 ELSE 0
        i0 == e.keys - 1
        left_most == tone_left_most(e)
        i1 == tone_find_vowel(e, i0, left_most)
    IN  IF tone_index = 0 THEN e
        ELSE IF i1 < left_most THEN e
        ELSE IF dt_get(At(e.buf, i1)).vowel_index = 0 THEN e
        ELSE LET end_pos == i1
                 left_most2 == Max(IF e.tone_next_to_vowel THEN i1 ELSE 0,
                                   end_pos - MAX_VOWEL_SEQUENCE + 1)
                 i2 == tone_vowel_run(e, i1, left_most2)
             IN  tone_apply(e, c, is_lower, tone_index, tone_target_pos(e, end_pos, i2))

PassThrough(c) == [kind |-> "PassThrough", c |-> c]

Output(text) == [kind |-> "Output", text |-> text]

Replace(backspaces, text) == [kind |-> "Replace", backspaces |-> backspaces, text |-> text]

\* A BreveMark arm that turns w into the short key on an empty buffer only.
breve_fallback_empty(e1, c, is_lower) ==
    IF e1.input_method = "Telex" /\ e1.keys_pushed = 0 /\ e1.backs = 0 /\ c \in {"w", "W"}
          /\ e1.keys = 0
    THEN [short_key(e1, c, is_lower) EXCEPT !.last_w_converted = TRUE]
    ELSE e1

\* A BreveMark arm with no short key after put_breve_mark.
breve_fallback_none(e1, c, is_lower) == e1

\* The BreveMark arm of process after put_breve_mark: a w that marked
\* nothing becomes the short key.
breve_fallback(e1, c, is_lower) ==
    IF e1.input_method = "Telex" /\ e1.keys_pushed = 0 /\ e1.backs = 0 /\ c \in {"w", "W"}
    THEN [short_key(e1, c, is_lower) EXCEPT !.last_w_converted = TRUE]
    ELSE e1

\* The match on category in process, up to the arms that return early.
process_dispatch(e, c, is_lower, category) ==
    IF category = "BreveMark"
    THEN IF e.input_method = "Telex" /\ e.last_w_converted /\ c \in {"w", "W"}
         THEN short_key(e, c, is_lower)
         ELSE breve_fallback(put_breve_mark(e, c, is_lower), c, is_lower)
    ELSE IF category = "DoubleKey" THEN double_char(e, c, is_lower)
    ELSE IF category = "ToneMark" THEN put_tone_mark(e, c, is_lower)
    ELSE IF category = "ShortKey" THEN short_key(e, c, is_lower)
    ELSE [e EXCEPT !.last_w_converted = FALSE]

\* process(c): the engine after the call and the ProcessResult it returns.
\* An end of process that appends the key whatever the routine did.
process_return_append(e, c, is_lower) ==
    IF e.keys_pushed = 0 /\ e.backs = 0
    THEN [e |-> put_char(e, c, is_lower), r |-> PassThrough(c)]
    ELSE IF e.backs > 0
    THEN [e |-> put_char(e, c, is_lower), r |-> Replace(e.backs, e.output_buffer)]
    ELSE [e |-> put_char(e, c, is_lower), r |-> Output(e.output_buffer)]

\* The end of process: what the routine that ran left in keys_pushed and backs.
process_return(e, c, is_lower) ==
    IF e.keys_pushed = 0 /\ e.backs = 0
    THEN [e |-> put_char(e, c, is_lower), r |-> PassThrough(c)]
    ELSE IF e.backs > 0
    THEN [e |-> e, r |-> Replace(e.backs, e.output_buffer)]
    ELSE [e |-> e, r |-> Output(e.output_buffer)]

\* Separator arms that leave the buffer as it is.
process_separator_keep(e, c) == e

\* The separator arms of process (with and without the latch).
process_separator(e, c) ==
    IF c = backspace THEN process_backspace(e) ELSE clear_buf(e)

\* process after the reset of keys_pushed, backs and output_buffer.
process_char(e, c, is_lower, category) ==
    IF ~e.vietnamese_mode
    THEN [e |-> put_char(e, c, is_lower), r |-> PassThrough(c)]
    ELSE IF e.temp_viet_off
    THEN LET e1 == IF ~is_alphabetic(c) THEN [e EXCEPT !.temp_viet_off = FALSE] ELSE e
         IN  [e |-> IF category = "Separator"
                    THEN process_separator(e1, c)
                    ELSE put_char(e1, c, is_lower),
              r |-> PassThrough(c)]
    ELSE IF category = "Separator"
    THEN [e |-> [process_separator(e, c) EXCEPT !.last_w_converted = FALSE],
          r |-> PassThrough(c)]
    ELSE process_return(process_dispatch(e, c, is_lower, category), c, is_lower)

\* process(c): the engine after the call and the ProcessResult it returns.
process(e0, c) ==
    process_char([e0 EXCEPT !.keys_pushed = 0, !.backs = 0, !.output_buffer = << >>],
                 c, is_lowercase(c), key_category(e0, c))

set_input_method(e, method) == [e EXCEPT !.input_method = method]

\* A set_vietnamese_mode that clears the buffer whatever the new mode is.
set_vietnamese_mode_clear(e, enabled) == clear_buf([e EXCEPT !.vietnamese_mode = enabled])

set_vietnamese_mode(e, enabled) ==
    LET e1 == [e EXCEPT !.vietnamese_mode = enabled]
    IN  IF ~enabled THEN clear_buf(e1) ELSE e1

toggle_vietnamese_mode(e) == set_vietnamese_mode(e, ~e.vietnamese_mode)

set_free_marking(e, enabled) == [e EXCEPT !.free_marking = enabled]

set_modern_style(e, enabled) == [e EXCEPT !.modern_style = enabled]

\* ------------------------------------------------------------ the host

\* What the focused application shows after the host acts on a result:
\* PassThrough lets the key reach it, Output and Replace become
\* BlockAndInject{backspaces, text} (backspaces first, then the text).  A
\* backspace that is let through erases the last character there, as the
\* Backspace key events that inject_replacement sends do.
inject_replacement(text_on_screen, r) ==
    IF r.kind = "PassThrough"
    THEN IF r.c = backspace
         THEN SubSeq(text_on_screen, 1, Max(0, Len(text_on_screen) - 1))
         ELSE Append(text_on_screen, r.c)
    ELSE IF r.kind = "Output" THEN text_on_screen \o r.text
    ELSE SubSeq(text_on_screen, 1, Max(0, Len(text_on_screen) - r.backspaces)) \o r.text

\* One key press handled by the host: the engine call and its effect on screen.
handle_result(h, p) ==
    [pre |-> h.e, e |-> p.e, r |-> p.r, screen |-> inject_replacement(h.screen, p.r)]

process_key(h, c) == handle_result(h, process(h.e, c))

RECURSIVE process_keys(_, _, _)
\* n presses of the key c in a row
process_keys(h, c, n) ==
    IF n = 0 THEN h ELSE process_key(process_keys(h, c, n - 1), c)

RECURSIVE type_keys(_, _)
\* The host and engine h after the keys ks, typed one by one.
type_keys(h, ks) ==
    IF ks = << >> THEN h
    ELSE process_key(type_keys(h, SubSeq(ks, 1, Len(ks) - 1)), ks[Len(ks)])

\* ------------------------------------------------------------ bounds

\* calls of the public API in one run of Spec, SpecTone and SpecDouble
\* (budget counts the calls that are left)
MaxCalls == 4

MaxTone == 5

MaxDouble == 4

\* keys typed in each specification
Keys == {"a", "s", "w", "W", " ", ".", "1", backspace}

ToneKeys == {"a", "o", "i", "n", "s", "f", "w"}

DoubleKeys == {"a", "A", "e", "o", "d", "n", "s"}

\* a key held down until the buffer is almost full, or full
FillKeys == {"n"}

FillLens == {KEY_BUFSIZE - 1, KEY_BUFSIZE}

MaxModern == 3

\* the words of SpecModern: a two-vowel run (a diphthong of the modern rule or
\* another pair, in either case) after 0 to 2 consonants and before 0 to 2
ModernPrefixes == {<< >>, <<"n">>, <<"q">>, <<"g">>, <<"t", "h">>}

ModernPairs ==
    {<<"o", "a">>, <<"o", "e">>, <<"u", "y">>, <<"O", "A">>, <<"o", "A">>, <<"U", "y">>,
     <<"O", "e">>, <<"a", "o">>, <<"u", "a">>, <<"i", "a">>}

ModernSuffixes == {<< >>, <<"n">>, <<"n", "g">>}

ModernWords == {p \o d \o x : p \in ModernPrefixes, d \in ModernPairs, x \in ModernSuffixes}

ModernKeys == {"s", "f", "J", "n", "a"}

MaxBreve == 4

BreveKeys == {"a", "o", "u", "U", "s", "j", "w", "W", "n"}

MaxMethod == 4

MethodKeys == {"a", "s", "[", "]", "1", "5"}

MaxMarking == 5

MarkingKeys == {"a", "n", "s", "w"}

MaxTables == 3

TableKeys == {"a", "A", "o", "u", "w", "s", "j"}

MaxUnknown == 4

\* '\x07', a control character the attribute table has no entry for
bell == "\\x07"

UnknownKeys == {"a", "s", "w", "z", bell}

\* ------------------------------------------------------------ actions

SetEngine(e) ==
    /\ keys' = e.keys
    /\ buf' = e.buf
    /\ lower_case' = e.lower_case
    /\ last_w_converted' = e.last_w_converted
    /\ last_is_escape' = e.last_is_escape
    /\ temp_viet_off' = e.temp_viet_off
    /\ input_method' = e.input_method
    /\ vietnamese_mode' = e.vietnamese_mode
    /\ free_marking' = e.free_marking
    /\ tone_next_to_vowel' = e.tone_next_to_vowel
    /\ modern_style' = e.modern_style
    /\ keys_pushed' = e.keys_pushed
    /\ backs' = e.backs
    /\ output_buffer' = e.output_buffer

\* The engine after new(), with n calls left to make on it.
\* ------------------------------------------------------------ keyboard host
\* src/keyboard/mod.rs: the grab callback, the processor loop of
\* KeyboardMonitor::start and the injection threads, as three kinds of
\* processes that share INJECTING, the key channel and the action channel.
\* Key releases and modifier keys are let through by grab_callback without
\* touching any shared state and are left out.

MaxPresses == 2

\* The events, pressed and synthesized, that reach the grab callback in a run.
MaxEvents == 6

\* The keys of the host: a character key and a separator key.
KeyA == "a"

HostKeys == {KeyA, backspace}

is_separator_key(key) == key = backspace

\* The results process_keypress hands to process_key.
HostResults == {PassThrough(KeyA), Output(<< KeyA >>), Replace(1, << KeyA >>)}

GrabPassThrough == [kind |-> "PassThrough"]

BlockAndInject(backspaces, text) ==
    [kind |-> "BlockAndInject", backspaces |-> backspaces, text |-> text]

\* KeyboardMonitor::process_key: the GrabAction for a ProcessResult.
KeyboardMonitor_process_key(r) ==
    IF r.kind = "PassThrough" THEN GrabPassThrough
    ELSE IF r.kind = "Output" THEN BlockAndInject(0, r.text)
    ELSE BlockAndInject(r.backspaces, r.text)

\* The key events inject_replacement sends: the backspaces, then the text.
InjectedKeys(backspaces, text) == [k \in 1..backspaces |-> backspace] \o text

IdleCallback == [pc |-> "idle", key |-> "", press |-> 0]

NothingActed == [press |-> 0, reply |-> 0, kind |-> "None"]

HostStart ==
    /\ INJECTING = FALSE
    /\ grab_events = << >>
    /\ key_rx = << >>
    /\ action_rx = << >>
    /\ callback = IdleCallback
    /\ injections = << >>
    /\ current_buffer = << >>
    /\ acted = NothingActed
    /\ events_seen = 0
    /\ pressed = 0


Start(n) ==
    /\ keys = new.keys
    /\ buf = new.buf
    /\ lower_case = new.lower_case
    /\ last_w_converted = new.last_w_converted
    /\ last_is_escape = new.last_is_escape
    /\ temp_viet_off = new.temp_viet_off
    /\ input_method = new.input_method
    /\ vietnamese_mode = new.vietnamese_mode
    /\ free_marking = new.free_marking
    /\ tone_next_to_vowel = new.tone_next_to_vowel
    /\ modern_style = new.modern_style
    /\ keys_pushed = new.keys_pushed
    /\ backs = new.backs
    /\ output_buffer = new.output_buffer
    /\ dt = init_dt_table
    /\ bd = init_bd_table
    /\ result = [kind |-> "None"]
    /\ last = [op |-> "new", arg |-> "", pre |-> new]
    /\ screen = << >>
    /\ typed = << >>
    /\ budget = n
    /\ HostStart

Init == Start(MaxCalls)

InitTone == Start(MaxTone)

InitDouble == Start(MaxDouble)

\* n calls of process(c) in a row; `last` describes the last of them.
KeysDone(h, c, n) ==
    /\ budget > 0
    /\ budget' = budget - 1
    /\ SetEngine(h.e)
    /\ result' = h.r
    /\ last' = [op |-> "process", arg |-> c, pre |-> h.pre]
    /\ screen' = h.screen
    /\ typed' = typed \o [k \in 1..n |-> c]
    /\ UNCHANGED << table_vars, host_vars >>

ProcessRun(c, n) ==
    KeysDone(process_keys([pre |-> last.pre, e |-> Self, r |-> result, screen |-> screen],
                          c, n),
             c, n)

Process(c) == ProcessRun(c, 1)

\* A key held down from the start of the run.
ProcessFill(c, n) == typed = << >> /\ ProcessRun(c, n)

\* The calls process(ks[1]), process(ks[2]), ... in a row; `last` describes the
\* last of them.
WordDone(h, ks) ==
    /\ budget > 0
    /\ budget' = budget - 1
    /\ SetEngine(h.e)
    /\ result' = h.r
    /\ last' = [op |-> "process", arg |-> ks[Len(ks)], pre |-> h.pre]
    /\ screen' = h.screen
    /\ typed' = typed \o ks
    /\ UNCHANGED << table_vars, host_vars >>

\* A word typed from the start of the run.
ProcessWord(ks) ==
    /\ typed = << >>
    /\ WordDone(type_keys([pre |-> last.pre, e |-> Self, r |-> result, screen |-> screen], ks),
                ks)

Configure(op, arg, e) ==
    /\ budget > 0
    /\ budget' = budget - 1
    /\ SetEngine(e)
    /\ last' = [op |-> op, arg |-> arg, pre |-> Self]
    /\ UNCHANGED << table_vars, host_vars, result, screen, typed >>

ClearBuf == Configure("clear_buf", "", clear_buf(Self))

SetInputMethod(method) == Configure("set_input_method", method, set_input_method(Self, method))

SetVietnameseMode(enabled) ==
    Configure("set_vietnamese_mode", enabled, set_vietnamese_mode(Self, enabled))

ToggleVietnameseMode == Configure("toggle_vietnamese_mode", "", toggle_vietnamese_mode(Self))

SetFreeMarking(enabled) ==
    Configure("set_free_marking", enabled, set_free_marking(Self, enabled))

SetModernStyle(enabled) ==
    Configure("set_modern_style", enabled, set_modern_style(Self, enabled))

Next ==
    \/ \E c \in Keys : Process(c)
    \/ \E c \in FillKeys, n \in FillLens : ProcessFill(c, n)
    \/ ClearBuf
    \/ \E method \in InputMethod : SetInputMethod(method)
    \/ \E enabled \in BOOLEAN : SetVietnameseMode(enabled)
    \/ ToggleVietnameseMode
    \/ \E enabled \in BOOLEAN : SetFreeMarking(enabled)
    \/ \E enabled \in BOOLEAN : SetModernStyle(enabled)

Spec == Init /\ [][Next]_vars

NextTone ==
    \/ \E c \in ToneKeys : Process(c)
    \/ \E c \in FillKeys, n \in FillLens : ProcessFill(c, n)

SpecTone == InitTone /\ [][NextTone]_vars

NextDouble ==
    \/ \E c \in DoubleKeys : Process(c)
    \/ \E c \in FillKeys, n \in FillLens : ProcessFill(c, n)

SpecDouble == InitDouble /\ [][NextDouble]_vars

InitModern == Start(MaxModern)

NextModern ==
    \/ \E ks \in ModernWords : ProcessWord(ks)
    \/ \E c \in ModernKeys : Process(c)
    \/ \E enabled \in BOOLEAN : SetModernStyle(enabled)

SpecModern == InitModern /\ [][NextModern]_vars

InitBreve == Start(MaxBreve)

NextBreve == \E c \in BreveKeys : Process(c)

SpecBreve == InitBreve /\ [][NextBreve]_vars

InitMethod == Start(MaxMethod)

NextMethod ==
    \/ \E c \in MethodKeys : Process(c)
    \/ \E method \in InputMethod : SetInputMethod(method)

SpecMethod == InitMethod /\ [][NextMethod]_vars

InitMarking == Start(MaxMarking)

NextMarking ==
    \/ \E c \in MarkingKeys : Process(c)
    \/ \E enabled \in BOOLEAN : SetFreeMarking(enabled)

SpecMarking == InitMarking /\ [][NextMarking]_vars

InitTables == Start(MaxTables)

NextTables == \E c \in TableKeys : Process(c)

SpecTables == InitTables /\ [][NextTables]_vars

InitUnknown == Start(MaxUnknown)

NextUnknown == \E c \in UnknownKeys : Process(c)

SpecUnknown == InitUnknown /\ [][NextUnknown]_vars

\* The keyboard host: its processes, one action per step.
InitHost == Start(0)

rest_vars == << engine_vars, table_vars, result, last, screen, typed, budget >>

\* The user presses a key: the event waits for the grab callback.  Every event
\* that reaches the callback gets the next number in `press`.
KeyPress(key) ==
    /\ pressed < MaxPresses
    /\ events_seen < MaxEvents
    /\ pressed' = pressed + 1
    /\ events_seen' = events_seen + 1
    /\ grab_events' = Append(grab_events,
                             [key |-> key, press |-> events_seen + 1, synthesized |-> FALSE])
    /\ UNCHANGED << INJECTING, key_rx, action_rx, callback, injections,
                    current_buffer, acted, rest_vars >>

\* grab_callback up to its wait: an event is let through while INJECTING is
\* set, and is sent to the processor otherwise.
GrabEvent ==
    /\ callback.pc = "idle"
    /\ grab_events # << >>
    /\ grab_events' = Tail(grab_events)
    /\ IF INJECTING
       THEN UNCHANGED << key_rx, callback >>
       ELSE /\ key_rx' = Append(key_rx, Head(grab_events))
            /\ callback' = [pc |-> "waiting", key |-> Head(grab_events).key,
                            press |-> Head(grab_events).press]
    /\ UNCHANGED << INJECTING, action_rx, injections, current_buffer, acted,
                    events_seen, pressed, rest_vars >>

\* rx.recv_timeout returns Ok: the reply at the head of the action channel is
\* taken.  For a separator key it is dropped and the key let through; for a
\* character key the callback acts on it, and BlockAndInject spawns a thread
\* running inject_replacement.
GrabReply ==
    /\ callback.pc = "waiting"
    /\ action_rx # << >>
    /\ action_rx' = Tail(action_rx)
    /\ callback' = IdleCallback
    /\ IF is_separator_key(callback.key)
       THEN UNCHANGED << acted, injections >>
       ELSE /\ acted' = [press |-> callback.press, reply |-> Head(action_rx).press,
                         kind |-> Head(action_rx).action.kind]
            /\ IF Head(action_rx).action.kind = "BlockAndInject"
               THEN injections' =
                        Append(injections,
                               [pc |-> "start",
                                todo |-> InjectedKeys(Head(action_rx).action.backspaces,
                                                      Head(action_rx).action.text)])
               ELSE UNCHANGED injections
    /\ UNCHANGED << INJECTING, grab_events, key_rx, current_buffer,
                    events_seen, pressed, rest_vars >>

\* rx.recv_timeout returns Err after 50 ms without a reply: the key is let
\* through.
GrabTimeout ==
    /\ callback.pc = "waiting"
    /\ action_rx = << >>
    /\ callback' = IdleCallback
    /\ UNCHANGED << INJECTING, grab_events, key_rx, action_rx, injections,
                    current_buffer, acted, events_seen, pressed, rest_vars >>

\* One turn of the loop of KeyboardMonitor::start: a separator key resets the
\* buffer of the engine, a character key goes through process_key (which
\* pushes it on the buffer), and the action is sent back.
ProcessorTurn(r) ==
    /\ key_rx # << >>
    /\ key_rx' = Tail(key_rx)
    /\ IF is_separator_key(Head(key_rx).key)
       THEN /\ r = PassThrough(KeyA)
            /\ current_buffer' = << >>
            /\ action_rx' = Append(action_rx,
                                   [action |-> GrabPassThrough, press |-> Head(key_rx).press])
       ELSE /\ current_buffer' = Append(current_buffer, Head(key_rx).key)
            /\ action_rx' = Append(action_rx,
                                   [action |-> KeyboardMonitor_process_key(r), press |-> Head(key_rx).press])
    /\ UNCHANGED << INJECTING, grab_events, callback, injections, acted,
                    events_seen, pressed, rest_vars >>

Without(s, i) == SubSeq(s, 1, i - 1) \o SubSeq(s, i + 1, Len(s))

\* inject_replacement, first part: nothing to send, or INJECTING.store(true).
InjectStart(i) ==
    /\ injections[i].pc = "start"
    /\ IF injections[i].todo = << >>
       THEN /\ injections' = Without(injections, i)
            /\ UNCHANGED INJECTING
       ELSE /\ INJECTING' = TRUE
            /\ injections' = [injections EXCEPT ![i].pc = "sending"]
    /\ UNCHANGED << grab_events, key_rx, action_rx, callback, current_buffer,
                    acted, events_seen, pressed, rest_vars >>

\* inject_replacement, one send_key or send_unicode_char: the synthesized key
\* press reaches the grab callback like any other event.
InjectSend(i) ==
    /\ injections[i].pc = "sending"
    /\ injections[i].todo # << >>
    /\ events_seen < MaxEvents
    /\ events_seen' = events_seen + 1
    /\ grab_events' = Append(grab_events,
                             [key |-> Head(injections[i].todo), press |-> events_seen + 1,
                              synthesized |-> TRUE])
    /\ injections' = [injections EXCEPT ![i].todo = Tail(@)]
    /\ UNCHANGED << INJECTING, key_rx, action_rx, callback, current_buffer,
                    acted, pressed, rest_vars >>

\* inject_replacement, last part: INJECTING.store(false).
InjectFinish(i) ==
    /\ injections[i].pc = "sending"
    /\ injections[i].todo = << >>
    /\ INJECTING' = FALSE
    /\ injections' = Without(injections, i)
    /\ UNCHANGED << grab_events, key_rx, action_rx, callback, current_buffer,
                    acted, events_seen, pressed, rest_vars >>

NextHost ==
    \/ \E key \in HostKeys : KeyPress(key)
    \/ GrabEvent
    \/ GrabReply
    \/ GrabTimeout
    \/ \E r \in HostResults : ProcessorTurn(r)
    \/ \E i \in DOMAIN injections : InjectStart(i)
    \/ \E i \in DOMAIN injections : InjectSend(i)
    \/ \E i \in DOMAIN injections : InjectFinish(i)

SpecHost == InitHost /\ [][NextHost]_vars

\* ------------------------------------------------------------ properties

\* The last call was process(Key), made on the engine Before.
Processed == last.op = "process"

Before == last.pre

Key == last.arg

\* What put_char keeps of a buffer before it writes the new entry: the last
\* KEYS_MAINTAIN entries of a full buffer, all of a shorter one.
Retained(b) ==
    IF Len(b) >= KEY_BUFSIZE THEN SubSeq(b, Len(b) - KEYS_MAINTAIN + 1, Len(b)) ELSE b

IsVowel(c) == dt_get(c).vowel_index > 0

IsSeparator(c) == dt_get(c).is_separator

\* The tone a key stands for (0: not a tone key) and the tone a character carries.
ToneOfKey(c) == dt_get(c).tone_index

ToneOn(c) == dt_get(c).current_tone

\* Telex transformations are live: Vietnamese mode on, Telex, no latch.
Live(e) == e.vietnamese_mode /\ ~e.temp_viet_off /\ e.input_method = "Telex"

\* The engine after the first n keys of the run, typed on a new engine.
EngineAfter(n) ==
    type_keys([pre |-> new, e |-> new, r |-> [kind |-> "None"], screen |-> << >>],
              SubSeq(typed, 1, n)).e

\* The last call left the tone of Key on slot p, which it rewrote.
TonePlaced(p) ==
    /\ p < Before.keys
    /\ p < keys
    /\ At(buf, p) # At(Before.buf, p)
    /\ ToneOn(At(buf, p)) = ToneOfKey(Key)

\* C1: while Vietnamese mode is off, process(c) returns PassThrough(c) for every
\* character c and appends c to the buffer: the buffer is what put_char retains
\* of the old one (all of it below KEY_BUFSIZE), unchanged, followed by c.
PassThroughWhenOff ==
    (Processed /\ ~Before.vietnamese_mode) =>
        /\ result = PassThrough(Key)
        /\ buf = Append(Retained(Before.buf), Key)
        /\ keys = Len(buf)

\* A tone key typed on a full buffer while Vietnamese mode is off.
WitnessPassThroughWhenOff ==
    /\ Processed
    /\ ~Before.vietnamese_mode
    /\ Before.keys = KEY_BUFSIZE
    /\ Key = "s"
    /\ result = PassThrough("s")

\* C2: in every reachable state the buffer length keys is at most KEY_BUFSIZE,
\* and buf and lower_case hold exactly keys entries.
BufferBounded ==
    /\ keys <= KEY_BUFSIZE
    /\ Len(buf) = keys
    /\ Len(lower_case) = keys

\* A key appended to a full buffer in Vietnamese mode: the buffer was compacted.
WitnessBufferBounded ==
    /\ Processed
    /\ Before.vietnamese_mode
    /\ Before.keys = KEY_BUFSIZE
    /\ keys = KEYS_MAINTAIN + 1

\* C3, as stated: after process(c) for a separator c the buffer is empty,
\* whatever the engine state was before the call.
SeparatorAlwaysEmpties ==
    (Processed /\ IsSeparator(Key)) => (keys = 0 /\ buf = << >>)

\* C3, amended: after process(c) for a separator c made with Vietnamese mode
\* on, latched or not, the buffer is empty.
SeparatorEmptiesWhenOn ==
    (Processed /\ IsSeparator(Key) /\ Before.vietnamese_mode) => (keys = 0 /\ buf = << >>)

\* A digit typed under the latch on a non-empty buffer.
WitnessSeparatorEmptiesWhenOn ==
    /\ Processed
    /\ Before.vietnamese_mode
    /\ Before.temp_viet_off
    /\ Before.keys > 0
    /\ Key = "1"
    /\ keys = 0

\* C4: from a new engine (Vietnamese mode, Telex), after any run of fewer than
\* KEY_BUFSIZE keys, none a separator, the host text built from the returned
\* instructions equals the engine buffer.
HostTextIsBuffer == Len(typed) < KEY_BUFSIZE => screen = buf

\* A Replace that reached two slots back.
WitnessHostTextIsBuffer ==
    /\ Len(typed) < KEY_BUFSIZE
    /\ result = Replace(2, << "á", "n" >>)
    /\ screen = << "á", "n" >>

\* C5: when a Telex tone key leaves its tone on the vowel at slot p, process
\* returns Replace{backspaces: (buffer length before the key) - p, text: the
\* buffer from p to the tail} and the buffer length is unchanged.
ToneReplacesFromVowel ==
    (Processed /\ Live(Before) /\ ToneOfKey(Key) > 0) =>
        \A p \in 0..(KEY_BUFSIZE - 1) :
            TonePlaced(p) =>
                /\ result = Replace(Before.keys - p, SubSeq(buf, p + 1, keys))
                /\ keys = Before.keys

\* A grave placed over two trailing consonants.
WitnessToneReplacesFromVowel ==
    /\ Processed
    /\ Live(Before)
    /\ Key = "f"
    /\ Before.keys = 3
    /\ TonePlaced(0)

\* The claim of C6 for the letter L typed three times on the engine B0.
TripleUndoesFrom(B0, L) ==
    (/\ Live(B0)
     /\ B0.keys + 3 <= KEY_BUFSIZE
     /\ (B0.keys = 0 \/ to_lowercase(At(B0.buf, B0.keys - 1)) # L))
    => (buf = B0.buf \o << L, L >> /\ temp_viet_off)

\* C6, as stated: a letter of {a, e, o, d} typed three times in a row, at the
\* start of a word or after other letters, leaves the two literal letters in the
\* buffer and sets the latch.
TripleUndoes ==
    (/\ Len(typed) >= 3
     /\ typed[Len(typed)] \in {"a", "e", "o", "d"}
     /\ typed[Len(typed) - 1] = typed[Len(typed)]
     /\ typed[Len(typed) - 2] = typed[Len(typed)])
    => TripleUndoesFrom(EngineAfter(Len(typed) - 3), typed[Len(typed)])

\* The claim of C7 for the tone key k typed on B0, giving B1, and typed again.
ToneTwiceRemovesFrom(B0, B1, k) ==
    (/\ Live(B0)
     /\ B0.keys < KEY_BUFSIZE
     /\ B1.keys = B0.keys
     /\ \E p \in 0..(B0.keys - 1) :
            /\ At(B1.buf, p) # At(B0.buf, p)
            /\ ToneOn(At(B0.buf, p)) = 0
            /\ ToneOn(At(B1.buf, p)) = ToneOfKey(k))
    => (buf = Append(B0.buf, k) /\ temp_viet_off)

\* C7, as stated: when a tone key k has placed a tone on a word, the same key
\* typed again removes it: the buffer is what it was before the first k,
\* followed by the literal k, and the latch is set.
ToneTwiceRemoves ==
    (/\ Len(typed) >= 2
     /\ ToneOfKey(typed[Len(typed)]) > 0
     /\ typed[Len(typed) - 1] = typed[Len(typed)])
    => ToneTwiceRemovesFrom(EngineAfter(Len(typed) - 2), Before, typed[Len(typed)])

\* â, ê, ô, đ
Circumflex(l) ==
    IF l = "a" THEN "â" ELSE IF l = "e" THEN "ê" ELSE IF l = "o" THEN "ô" ELSE d_stroke

VowelInReach(b) ==
    \E j \in 0..MAX_AFTER_VOWEL : j < Len(b) /\ IsVowel(At(b, Len(b) - 1 - j))

\* C9: a Telex tone key reaches a vowel across at most MAX_AFTER_VOWEL trailing
\* non-vowels.  With no vowel in reach (or an empty buffer) it is passed through
\* and appended, and nothing else changes.  With a vowel followed by 0, 1 or 2
\* consonants at the tail it is taken as a tone: the result is a Replace, and
\* either one vowel now carries the tone, or (the vowel carried it already) the
\* tone is removed and the key follows literally under the latch.
ToneReach ==
    (Processed /\ Live(Before) /\ ToneOfKey(Key) > 0) =>
        IF VowelInReach(Before.buf)
        THEN /\ result.kind = "Replace"
             /\ \/ /\ keys = Before.keys
                   /\ \E p \in 0..(keys - 1) :
                          /\ TonePlaced(p)
                          /\ \A q \in 0..(keys - 1) :
                                 q # p => At(buf, q) = At(Before.buf, q)
                \/ /\ temp_viet_off
                   /\ keys = Len(Retained(Before.buf)) + 1
                   /\ At(buf, keys - 1) = Key
        ELSE /\ result = PassThrough(Key)
             /\ buf = Append(Retained(Before.buf), Key)

\* An acute typed three consonants after the vowel.
WitnessToneReach ==
    /\ Processed
    /\ Live(Before)
    /\ Key = "s"
    /\ Before.buf = << "a", "n", "n", "n" >>
    /\ result = PassThrough("s")

\* The vowels a tone key reaches in b are exactly three untoned ones in a row,
\* the last of them at end_pos.
ThreeVowelRun(b, end_pos) ==
    /\ end_pos >= 2
    /\ end_pos <= Len(b) - 1
    /\ Len(b) - 1 - end_pos <= MAX_AFTER_VOWEL
    /\ \A q \in (end_pos + 1)..(Len(b) - 1) : ~IsVowel(At(b, q))
    /\ \A q \in (end_pos - 2)..end_pos : IsVowel(At(b, q)) /\ ToneOn(At(b, q)) = 0
    /\ (end_pos >= 3 => ~IsVowel(At(b, end_pos - 3)))

\* C10, as stated: when the run a tone key reaches is exactly three vowels in a
\* row, of any family, the tone is placed on the middle one.
ToneOnMiddleOfThree ==
    (Processed /\ Live(Before) /\ ToneOfKey(Key) > 0) =>
        \A end_pos \in 0..(KEY_BUFSIZE - 1) :
            ThreeVowelRun(Before.buf, end_pos) =>
                /\ keys = Before.keys
                /\ ToneOn(At(buf, end_pos - 1)) = ToneOfKey(Key)
                /\ \A q \in 0..(keys - 1) :
                       q # end_pos - 1 => At(buf, q) = At(Before.buf, q)

\* The vowel carries a circumflex, a breve or a horn.
HasMark(c) == dt_get(c).vowel_index \in {2, 3, 5, 8, 9, 11}

\* The slot of the first vowel from the tail of b, within the reach of a tone key.
ReachedVowel(b) ==
    Len(b) - 1 -
        (CHOOSE j \in 0..MAX_AFTER_VOWEL :
            /\ j < Len(b)
            /\ IsVowel(At(b, Len(b) - 1 - j))
            /\ \A k \in 0..(j - 1) : ~IsVowel(At(b, Len(b) - 1 - k)))

\* The slots of the vowel run of b that ends at end_pos: the consecutive
\* vowels, at most MAX_VOWEL_SEQUENCE of them.
VowelRun(b, end_pos) ==
    {p \in Max(0, end_pos - MAX_VOWEL_SEQUENCE + 1)..end_pos :
        \A q \in p..end_pos : IsVowel(At(b, q))}

\* The last call changed slot p of the buffer and no other, and left the
\* tone of Key on it.
ToneOnlyOn(p) ==
    /\ keys = Before.keys
    /\ ToneOn(At(buf, p)) = ToneOfKey(Key)
    /\ \A q \in 0..(keys - 1) : q # p => At(buf, q) = At(Before.buf, q)

\* C11, as stated: when the vowel run a tone key reaches holds untoned vowels of
\* which one carries a circumflex, breve or horn, the tone is placed on that
\* vowel and not on a plain vowel of the run.
ToneOnMarkedVowel ==
    (Processed /\ Live(Before) /\ ToneOfKey(Key) > 0 /\ VowelInReach(Before.buf)) =>
        \A p \in VowelRun(Before.buf, ReachedVowel(Before.buf)) :
            (/\ HasMark(At(Before.buf, p))
             /\ \A q \in VowelRun(Before.buf, ReachedVowel(Before.buf)) :
                    /\ ToneOn(At(Before.buf, q)) = 0
                    /\ (q # p => ~HasMark(At(Before.buf, q))))
            => ToneOnlyOn(p)

\* The engine has the configuration of new().
DefaultConfiguration(e) ==
    /\ e.input_method = new.input_method
    /\ e.vietnamese_mode = new.vietnamese_mode
    /\ e.free_marking = new.free_marking
    /\ e.tone_next_to_vowel = new.tone_next_to_vowel
    /\ e.modern_style = new.modern_style

\* Slot p of b is the last vowel of b, in the reach of a breve key.
LastVowelForBreve(b, p) ==
    /\ p >= 0
    /\ p >= Len(b) - MAX_MODIFY_LENGTH
    /\ p <= Len(b) - 1
    /\ IsVowel(At(b, p))
    /\ \A q \in (p + 1)..(Len(b) - 1) : ~IsVowel(At(b, q)) /\ ~IsSeparator(At(b, q))

\* C12, as stated: in Telex with the default configuration, w typed when the
\* last vowel of the word is the circumflex form of a turns that vowel into the
\* breve form and inserts no stand-alone horned u: the buffer keeps its length.
BreveOnCircumflex ==
    (Processed /\ Live(Before) /\ DefaultConfiguration(Before) /\ Key = "w") =>
        \A p \in 0..(KEY_BUFSIZE - 1) :
            (LastVowelForBreve(Before.buf, p) /\ At(Before.buf, p) = "â") =>
                /\ keys = Before.keys
                /\ buf = SetAt(Before.buf, p, a_breve)

\* The letters v1, v2 are one of the diphthongs oa, oe, uy, in any letter case.
ModernDiphthong(v1, v2) ==
    << to_lowercase(v1), to_lowercase(v2) >> \in {<<"o", "a">>, <<"o", "e">>, <<"u", "y">>}

\* The run of b that ends at end_pos is exactly two plain vowels, a diphthong
\* of the modern rule.
DiphthongRun(b, end_pos) ==
    /\ VowelRun(b, end_pos) = {end_pos - 1, end_pos}
    /\ ModernDiphthong(At(b, end_pos - 1), At(b, end_pos))

\* C13: with modern_style on, when the vowel run a tone key reaches is exactly
\* oa, oe or uy (any letter case), at the tail or before one or two consonants
\* and after any letter or none, the tone is placed on the second vowel: that
\* slot holds the same letter, in the same case, with the tone of the key, and
\* no other slot changes.
ToneOnSecondOfDiphthong ==
    (/\ Processed
     /\ Live(Before)
     /\ Before.modern_style
     /\ ToneOfKey(Key) > 0
     /\ VowelInReach(Before.buf)
     /\ DiphthongRun(Before.buf, ReachedVowel(Before.buf)))
    => /\ ToneOnlyOn(ReachedVowel(Before.buf))
       /\ get_base_vowel(At(buf, ReachedVowel(Before.buf)))
              = At(Before.buf, ReachedVowel(Before.buf))

\* A grave on the capital A of noAng, across two consonants.
WitnessToneOnSecondOfDiphthong ==
    /\ Processed
    /\ Live(Before)
    /\ Before.modern_style
    /\ Key = "f"
    /\ Before.buf = <<"n", "o", "A", "n", "g">>
    /\ buf = <<"n", "o", "À", "n", "g">>

\* The step is a call of process(c) for one key c, made in Vietnamese mode.
KeyStep(c) ==
    /\ last'.op = "process"
    /\ last'.arg = c
    /\ typed' = Append(typed, c)
    /\ vietnamese_mode

\* What C14 says of one step of the engine.
SeparatorStep ==
    \A c \in Keys :
        KeyStep(c) =>
            /\ IsSeparator(c) =>
                   /\ result' = PassThrough(c)
                   /\ keys' = 0
                   /\ buf' = << >>
                   /\ ~temp_viet_off'
                   /\ ~last_is_escape'
                   /\ ~last_w_converted'
            /\ (Processed /\ IsSeparator(Key) /\ Before.vietnamese_mode /\ ToneOfKey(c) > 0) =>
                   /\ result' = PassThrough(c)
                   /\ buf' = << c >>

\* C14: in Vietnamese mode a separator key returns PassThrough, empties the
\* buffer and clears the latches, and a tone key typed right after a separator
\* is appended literally to the empty buffer: it modifies no vowel typed before
\* the separator.
SeparatorStartsNewWord == [][SeparatorStep]_vars

\* a s, a space, then s: the acute of the first word stays, the second s is literal.
WitnessSeparatorStartsNewWord ==
    /\ Processed
    /\ Before.vietnamese_mode
    /\ typed = <<"a", "s", " ", "s">>
    /\ screen = <<"á", " ", "s">>
    /\ buf = <<"s">>
    /\ result = PassThrough("s")

\* C15, as stated: once the latch is set, every keypress returns PassThrough
\* and transforms nothing; a separator clears the latch and resets the buffer,
\* and any other key is appended literally and leaves the latch set.
LatchHoldsUntilSeparator ==
    (Processed /\ Before.vietnamese_mode /\ Before.temp_viet_off) =>
        /\ result = PassThrough(Key)
        /\ IF IsSeparator(Key)
           THEN ~temp_viet_off /\ keys = 0 /\ buf = << >>
           ELSE temp_viet_off /\ buf = Append(Retained(Before.buf), Key)

\* C16, as stated: in Vietnamese mode process of the backspace character on a
\* non-empty buffer removes the last entry, appends nothing, and returns
\* PassThrough.
BackspacePops ==
    (Processed /\ Before.vietnamese_mode /\ Key = backspace /\ Before.keys > 0) =>
        /\ result = PassThrough(backspace)
        /\ keys = Before.keys - 1
        /\ buf = SubSeq(Before.buf, 1, Before.keys - 1)

\* C17: in Telex Vietnamese mode, w (or W) typed on an empty buffer returns an
\* Output, with no deletion, whose text is the single horned u in the case of
\* the key, and the buffer then holds exactly that character.
ShortKeyOnEmpty ==
    (/\ Processed
     /\ Before.vietnamese_mode
     /\ Before.input_method = "Telex"
     /\ Before.keys = 0
     /\ Key \in {"w", "W"})
    => /\ result = Output(<< IF Key = "w" THEN "ư" ELSE "Ư" >>)
       /\ buf = << IF Key = "w" THEN "ư" ELSE "Ư" >>
       /\ keys = 1

\* W typed on the buffer a separator emptied.
WitnessShortKeyOnEmpty ==
    /\ Processed
    /\ Live(Before)
    /\ Before.keys = 0
    /\ Len(typed) > 1
    /\ IsSeparator(typed[Len(typed) - 1])
    /\ Key = "W"
    /\ result = Output(<< "Ư" >>)
    /\ buf = << "Ư" >>

\* The breve or horn form of the plain vowel v, in lower case.
BreveForm(v) == IF v = "a" THEN a_breve ELSE IF v = "o" THEN "ơ" ELSE "ư"

\* The tail of b is one of the plain vowels a, o, u.
PlainTail(b) == Len(b) > 0 /\ At(b, Len(b) - 1) \in {"a", "o", "u"}

\* C18, as stated: with Telex live, after any earlier keys of the word, w typed
\* on a tail that is plain a, o or u rewrites the tail to the breve or horn form,
\* returns a Replace, and appends neither w nor a stand-alone horned u.
BreveOnPlainTail ==
    (Processed /\ Live(Before) /\ Key = "w" /\ PlainTail(Before.buf)) =>
        /\ result.kind = "Replace"
        /\ keys = Before.keys
        /\ buf = SetAt(Before.buf, keys - 1, BreveForm(At(Before.buf, keys - 1)))

\* The claim of C19 for the vowel v typed on the engine B0, then w, giving B1,
\* then w again.
BreveTwiceRestoresFrom(B0, B1, v) ==
    (/\ Live(B0)
     /\ ~B0.last_w_converted
     /\ B0.keys + 2 <= KEY_BUFSIZE
     /\ B1.keys = B0.keys + 1
     /\ B1.buf = Append(B0.buf, BreveForm(v)))
    => (buf = B0.buf \o << v, "w" >> /\ temp_viet_off)

\* C19, as stated: a vowel v of a, o, u typed, then w (which gives its breve or
\* horn form), then w again: the base vowel is restored, the literal w follows
\* it, and the latch is set.
BreveTwiceRestores ==
    (/\ Len(typed) >= 3
     /\ typed[Len(typed)] = "w"
     /\ typed[Len(typed) - 1] = "w"
     /\ typed[Len(typed) - 2] \in {"a", "o", "u"})
    => BreveTwiceRestoresFrom(EngineAfter(Len(typed) - 3), Before, typed[Len(typed) - 2])

\* The family (vowel_index) of a character, and the breve or horn family of
\* the plain families a, o, u.
FamilyOf(c) == dt_get(c).vowel_index

BreveFamily(f) == IF f = 1 THEN 3 ELSE IF f = 7 THEN 9 ELSE 11

\* C20: when w rewrites a slot that held a vowel of family a, o or u carrying
\* tone t (1..5), the slot becomes the form of family a-breve, o-horn or u-horn
\* carrying the same tone t, and the buffer keeps its length.
BreveKeepsTone ==
    (Processed /\ Live(Before) /\ Key \in {"w", "W"}) =>
        \A p \in 0..(KEY_BUFSIZE - 1) :
            (/\ p < Before.keys
             /\ p < keys
             /\ At(buf, p) # At(Before.buf, p)
             /\ FamilyOf(At(Before.buf, p)) \in {1, 7, 10}
             /\ ToneOn(At(Before.buf, p)) > 0)
            => /\ keys = Before.keys
               /\ FamilyOf(At(buf, p)) = BreveFamily(FamilyOf(At(Before.buf, p)))
               /\ ToneOn(At(buf, p)) = ToneOn(At(Before.buf, p))

\* W typed one consonant after a capital U with the dot below: the horn
\* goes over the dot.
WitnessBreveKeepsTone ==
    /\ Processed
    /\ Live(Before)
    /\ Key = "W"
    /\ Before.buf = << "Ụ", "n" >>
    /\ buf = << "Ự", "n" >>
    /\ result = Replace(2, << "Ự", "n" >>)

\* The character the shortcut key c stands for.
ShortcutOf(c) == IF c = "[" THEN "ơ" ELSE "Ơ"

\* C21, as stated: in Telex Vietnamese mode (no latch), [ gives the horned o
\* and ] its capital as stand-alone shortcuts: the instruction returned
\* inserts that character and the buffer tail becomes that character.
BracketShortcuts ==
    (Processed /\ Live(Before) /\ Key \in {"[", "]"}) =>
        /\ result.kind \in {"Output", "Replace"}
        /\ result.text = << ShortcutOf(Key) >>
        /\ keys > 0
        /\ At(buf, keys - 1) = ShortcutOf(Key)

\* The tone a Vni digit stands for (1..5), 0 for any other key.
VniToneOfKey(c) ==
    CASE c = "1" -> 1 [] c = "2" -> 2 [] c = "3" -> 3 [] c = "4" -> 4
      [] c = "5" -> 5 [] OTHER -> 0

\* C22, as stated: with the Vni method selected, a digit 1..5 typed right
\* after an untoned vowel places that tone on the vowel and does not clear
\* the buffer.
VniDigitsPlaceTone ==
    (/\ Processed
     /\ Before.vietnamese_mode
     /\ ~Before.temp_viet_off
     /\ Before.input_method = "Vni"
     /\ VniToneOfKey(Key) > 0
     /\ Before.keys > 0
     /\ IsVowel(At(Before.buf, Before.keys - 1))
     /\ ToneOn(At(Before.buf, Before.keys - 1)) = 0) =>
        /\ keys = Before.keys
        /\ ToneOn(At(buf, keys - 1)) = VniToneOfKey(Key)

\* The first KEYS_MAINTAIN entries of a longer sequence.
KeptPart(b) == SubSeq(b, 1, KEYS_MAINTAIN)

\* The last call, made on a full buffer, did what the call p on the compacted
\* buffer does; where p appends (one entry more than KEYS_MAINTAIN), the entries
\* ahead of a plainly appended character are the most recent ones of the old
\* buffer, in order, with their case bits.
SameAsCompacted(p) ==
    p.e.keys = KEYS_MAINTAIN + 1 =>
        /\ keys = KEYS_MAINTAIN + 1
        /\ result = p.r
        /\ buf = p.e.buf
        /\ lower_case = p.e.lower_case
        /\ result.kind \in {"PassThrough", "Output"} =>
              /\ KeptPart(buf) = Retained(Before.buf)
              /\ KeptPart(lower_case) = Retained(Before.lower_case)
              /\ lower_case[keys] = is_lowercase(Key)

\* C23: a call that appends a character to a buffer holding KEY_BUFSIZE entries
\* leaves the KEYS_MAINTAIN most recent entries in their order, with their case
\* bits, followed by the new character (KEYS_MAINTAIN + 1 entries), and returns
\* the instruction the same key gets on the buffer of those KEYS_MAINTAIN
\* entries, where no compaction takes place.
CompactionKeepsRecent ==
    (Processed /\ Before.keys = KEY_BUFSIZE) =>
        SameAsCompacted(process(throw_buf(Before), Key))

\* A key appended to a full buffer whose last entry differs from its first.
WitnessCompactionKeepsRecent ==
    /\ Processed
    /\ Before.keys = KEY_BUFSIZE
    /\ At(Before.buf, KEY_BUFSIZE - 1) = "a"
    /\ Key = backspace
    /\ result = PassThrough(backspace)
    /\ buf = Append(Retained(Before.buf), backspace)

\* C24, as stated: with free_marking false, a tone key or a breve key typed
\* when the buffer tail is not a vowel changes no vowel of the buffer.
MarkingNeedsAdjacentVowel ==
    (/\ Processed
     /\ Live(Before)
     /\ ~Before.free_marking
     /\ (ToneOfKey(Key) > 0 \/ Key \in {"w", "W"})
     /\ Before.keys > 0
     /\ ~IsVowel(At(Before.buf, Before.keys - 1))) =>
        \A p \in 0..(Before.keys - 1) :
            IsVowel(At(Before.buf, p)) => (p < keys /\ At(buf, p) = At(Before.buf, p))

\* The breve keys alone: put_breve_mark scans the tail slot only when
\* free_marking is false.
BreveNeedsAdjacentVowel ==
    (/\ Processed
     /\ Live(Before)
     /\ ~Before.free_marking
     /\ Key \in {"w", "W"}
     /\ Before.keys > 0
     /\ ~IsVowel(At(Before.buf, Before.keys - 1))) =>
        \A p \in 0..(Before.keys - 1) :
            IsVowel(At(Before.buf, p)) => (p < keys /\ At(buf, p) = At(Before.buf, p))

\* The run of b that ends at end_pos is exactly two plain (ASCII) vowels.
PlainPair(b, end_pos) ==
    /\ VowelRun(b, end_pos) = {end_pos - 1, end_pos}
    /\ is_ascii_alphabetic(At(b, end_pos - 1))
    /\ is_ascii_alphabetic(At(b, end_pos))

\* The letter before the two-vowel run ending at end_pos is q, or it is g and
\* the run begins with i (any letter case).
GlideBefore(b, end_pos) ==
    /\ end_pos >= 2
    /\ \/ to_uppercase(At(b, end_pos - 2)) = "Q"
       \/ /\ to_uppercase(At(b, end_pos - 2)) = "G"
          /\ to_uppercase(At(b, end_pos - 1)) = "I"

\* A tone key meets a run of two plain vowels ending at end_pos that is none of
\* the special cases: no diphthong of the modern rule while modern_style is on,
\* no glide.
OrdinaryPair(end_pos) ==
    /\ Processed
    /\ Live(Before)
    /\ ToneOfKey(Key) > 0
    /\ VowelInReach(Before.buf)
    /\ end_pos = ReachedVowel(Before.buf)
    /\ PlainPair(Before.buf, end_pos)
    /\ ~(Before.modern_style
         /\ ModernDiphthong(At(Before.buf, end_pos - 1), At(Before.buf, end_pos)))
    /\ ~GlideBefore(Before.buf, end_pos)

GlideSkipped ==
    \A end_pos \in 2..(KEY_BUFSIZE - 1) :
        (/\ Processed
         /\ Live(Before)
         /\ ToneOfKey(Key) > 0
         /\ VowelInReach(Before.buf)
         /\ end_pos = ReachedVowel(Before.buf)
         /\ PlainPair(Before.buf, end_pos)
         /\ << to_lowercase(At(Before.buf, end_pos - 2)),
               to_lowercase(At(Before.buf, end_pos - 1)) >> \in {<<"q", "u">>, <<"g", "i">>})
        => ToneOnlyOn(end_pos)

\* The same with modern_style on, where put_tone_mark tests for the glide.
GlideSkippedWhenModern ==
    \A end_pos \in 2..(KEY_BUFSIZE - 1) :
        (/\ Processed
         /\ Live(Before)
         /\ Before.modern_style
         /\ ToneOfKey(Key) > 0
         /\ VowelInReach(Before.buf)
         /\ end_pos = ReachedVowel(Before.buf)
         /\ PlainPair(Before.buf, end_pos)
         /\ << to_lowercase(At(Before.buf, end_pos - 2)),
               to_lowercase(At(Before.buf, end_pos - 1)) >> \in {<<"q", "u">>, <<"g", "i">>})
        => ToneOnlyOn(end_pos)

\* C27, as stated: a letter of {a, e, o, d} typed in either case on a tail that
\* is the same plain letter rewrites the tail in the tail's own case: a capital
\* tail becomes the capital circumflex or stroke form, a small tail the small one.
DoubleKeepsTailCase ==
    (/\ Processed
     /\ Live(Before)
     /\ Before.keys > 0
     /\ to_lowercase(Key) \in {"a", "e", "o", "d"}
     /\ At(Before.buf, Before.keys - 1) \in {"a", "e", "o", "d", "A", "E", "O", "D"}
     /\ to_lowercase(At(Before.buf, Before.keys - 1)) = to_lowercase(Key)) =>
        /\ keys = Before.keys
        /\ At(buf, keys - 1) =
              IF At(Before.buf, Before.keys - 1) \in {"A", "E", "O", "D"}
              THEN to_uppercase(Circumflex(to_lowercase(Key)))
              ELSE Circumflex(to_lowercase(Key))

\* What double_char does: the rewritten tail has the case of the typed key.
DoubleTakesKeyCase ==
    (/\ Processed
     /\ Live(Before)
     /\ Before.keys > 0
     /\ to_lowercase(Key) \in {"a", "e", "o", "d"}
     /\ At(Before.buf, Before.keys - 1) \in {"a", "e", "o", "d", "A", "E", "O", "D"}
     /\ to_lowercase(At(Before.buf, Before.keys - 1)) = to_lowercase(Key)) =>
        /\ keys = Before.keys
        /\ At(buf, keys - 1) =
              IF is_lowercase(Key)
              THEN Circumflex(to_lowercase(Key))
              ELSE to_uppercase(Circumflex(to_lowercase(Key)))

\* The character the w shortcut stands for, in the case of the key.
ShortForm(c) == IF c = "w" THEN "ư" ELSE "Ư"

\* C28: in Telex, w (W) typed when the buffer tail is the ư (Ư) that the
\* stand-alone shortcut left there puts the literal key in its place: the call
\* returns Replace{backspaces: 1, text: the key}, the buffer keeps its length
\* and the latch is set.  w w from an empty buffer leaves the buffer `w`.
ShortcutTwiceIsLiteral ==
    /\ (/\ Processed
        /\ Live(Before)
        /\ Key \in {"w", "W"}
        /\ Before.last_w_converted
        /\ Before.keys > 0
        /\ At(Before.buf, Before.keys - 1) = ShortForm(Key)) =>
           /\ result = Replace(1, << Key >>)
           /\ keys = Before.keys
           /\ buf = SetAt(Before.buf, keys - 1, Key)
           /\ temp_viet_off
    /\ typed = << "w", "w" >> => (buf = << "w" >> /\ temp_viet_off)

\* w w from an empty buffer.
WitnessShortcutTwiceIsLiteral ==
    /\ typed = << "w", "w" >>
    /\ Before.buf = << "ư" >>
    /\ Before.last_w_converted
    /\ result = Replace(1, << "w" >>)
    /\ buf = << "w" >>
    /\ temp_viet_off

\* No entry among the last MAX_MODIFY_LENGTH of b is a vowel put_breve_mark
\* can mark: one of the plain a, o, u families, with or without a tone.
NoEligibleVowel(b) ==
    \A j \in 0..(MAX_MODIFY_LENGTH - 1) :
        j < Len(b) =>
            \/ ~IsVowel(At(b, Len(b) - 1 - j))
            \/ to_lowercase(get_base_vowel(At(b, Len(b) - 1 - j))) \notin {"a", "o", "u"}

RewrittenInPlace(p) ==
    /\ p < Before.keys
    /\ keys = Before.keys
    /\ At(buf, p) # At(Before.buf, p)

\* The entry of the tone table for the family of the vowel v and the tone t, in
\* the letter case of v.
TonedForm(v, t) ==
    IF is_uppercase(v)
    THEN to_uppercase(At(At(bd, FamilyOf(v) - 1), t - 1))
    ELSE At(At(bd, FamilyOf(v) - 1), t - 1)

\* C30: when a Telex tone key rewrites a vowel that carries no tone or another
\* tone, the slot becomes the table entry for the vowel's family and the tone
\* of the key: the family (plain, circumflex, breve or horn) is unchanged, the
\* slot carries the tone of the key alone, and it is uppercase exactly when the
\* vowel was.
ToneKeepsFamilyAndCase ==
    (Processed /\ Live(Before) /\ ToneOfKey(Key) > 0) =>
        \A p \in 0..(KEY_BUFSIZE - 1) :
            RewrittenInPlace(p) =>
                /\ IsVowel(At(Before.buf, p))
                /\ ToneOn(At(Before.buf, p)) # ToneOfKey(Key)
                /\ At(buf, p) = TonedForm(At(Before.buf, p), ToneOfKey(Key))
                /\ FamilyOf(At(buf, p)) = FamilyOf(At(Before.buf, p))
                /\ ToneOn(At(buf, p)) = ToneOfKey(Key)
                /\ is_uppercase(At(buf, p)) = is_uppercase(At(Before.buf, p))
                /\ get_base_vowel(At(buf, p)) = get_base_vowel(At(Before.buf, p))

\* The dot below replaces the acute on a capital horned u.
WitnessToneKeepsFamilyAndCase ==
    /\ Processed
    /\ Live(Before)
    /\ Key = "j"
    /\ Before.buf = << "Ứ" >>
    /\ buf = << "Ự" >>
    /\ result = Replace(1, << "Ự" >>)

\* The characters the attribute table records as untoned vowels, both cases.
UntonedVowels == {c \in DOMAIN dt : dt[c].vowel_index > 0 /\ dt[c].current_tone = 0}

\* C31: the attribute table and the tone table agree.  For every family f in
\* 1..12 and tone t in 1..5 the character bd[f - 1][t - 1] has vowel_index f and
\* current_tone t, and bd[f - 1][5] has vowel_index f and current_tone 0; so
\* for every untoned vowel b, of either case, and every tone t,
\* get_base_vowel(apply_tone_to_base(b, t)) = b.
TablesAgree ==
    /\ \A f \in 1..12 :
          /\ \A t \in 1..5 :
                /\ dt_get(At(At(bd, f - 1), t - 1)).vowel_index = f
                /\ dt_get(At(At(bd, f - 1), t - 1)).current_tone = t
          /\ dt_get(At(At(bd, f - 1), 5)).vowel_index = f
          /\ dt_get(At(At(bd, f - 1), 5)).current_tone = 0
    /\ \A b \in UntonedVowels :
          \A t \in 1..5 :
              /\ apply_tone_to_base(b, t) # b
              /\ get_base_vowel(apply_tone_to_base(b, t)) = b

\* The tables as the engine used them: a tone applied to a capital A.
WitnessTablesAgree ==
    /\ Processed
    /\ Key = "s"
    /\ Before.buf = << "A" >>
    /\ buf = << apply_tone_to_base("A", 1) >>
    /\ get_base_vowel(At(buf, 0)) = "A"
    /\ Cardinality(UntonedVowels) = 24

\* C32, as stated: in Vietnamese mode a character the attribute table has no
\* entry for is passed through and appended as one slot; no other slot changes
\* and neither latch changes (only last_w_converted may be reset).
UnknownIsAppended ==
    (Processed /\ Before.vietnamese_mode /\ Key \notin DOMAIN dt) =>
        /\ result = PassThrough(Key)
        /\ buf = Append(Retained(Before.buf), Key)
        /\ lower_case = Append(Retained(Before.lower_case), is_lowercase(Key))
        /\ temp_viet_off = Before.temp_viet_off
        /\ last_is_escape = Before.last_is_escape
        /\ (last_w_converted => Before.last_w_converted)

\* The same for the letters among those characters.
UnknownLetterIsAppended ==
    (Processed /\ Before.vietnamese_mode /\ Key \notin DOMAIN dt /\ is_alphabetic(Key)) =>
        /\ result = PassThrough(Key)
        /\ buf = Append(Retained(Before.buf), Key)
        /\ lower_case = Append(Retained(Before.lower_case), is_lowercase(Key))
        /\ temp_viet_off = Before.temp_viet_off
        /\ last_is_escape = Before.last_is_escape
        /\ (last_w_converted => Before.last_w_converted)

\* The sequence s ends with the sequence b.
IsSuffix(b, s) ==
    /\ Len(b) <= Len(s)
    /\ SubSeq(s, Len(s) - Len(b) + 1, Len(s)) = b

\* C33: in every state reachable by process, clear_buf and the setters, in any
\* order, the engine buffer is a suffix of the host text built from the
\* returned instructions, and a Replace deletes no more characters than the
\* buffer held before the key.
BufferIsSuffixOfScreen ==
    /\ IsSuffix(buf, screen)
    /\ (Processed /\ result.kind = "Replace") => result.backspaces <= Before.keys

\* The same as long as no backspace character was typed.
BufferIsSuffixWithoutBackspace ==
    (\A k \in 1..Len(typed) : typed[k] # backspace) => BufferIsSuffixOfScreen

\* The last call was an escape: it set the latch.
Escaped == ~Before.temp_viet_off /\ temp_viet_off

\* The last call was the escape of the stand-alone w: the key met its own
\* shortcut character at the tail.
ShortcutEscaped ==
    /\ Escaped
    /\ Key \in {"w", "W"}
    /\ Before.keys > 0
    /\ At(Before.buf, Before.keys - 1) = ShortForm(Key)

\* C34: every instruction process returns is well formed.  A Replace deletes
\* at least one character and at most as many as the buffer held before the
\* key, and its text is not empty: as many characters as it deletes for a
\* transformation and for the escape of the stand-alone w, one more for any
\* other escape (the literal trigger).  An Output has exactly one character.
\* A PassThrough carries the key.
InstructionWellFormed ==
    Processed =>
        /\ result.kind \in {"PassThrough", "Output", "Replace"}
        /\ result.kind = "PassThrough" => result.c = Key
        /\ result.kind = "Output" => Len(result.text) = 1
        /\ result.kind = "Replace" =>
              /\ 1 <= result.backspaces
              /\ result.backspaces <= Before.keys
              /\ Len(result.text) >= 1
              /\ Len(result.text) = IF Escaped /\ ~ShortcutEscaped
                                    THEN result.backspaces + 1
                                    ELSE result.backspaces

\* The escape of a tone placed across a consonant.
WitnessInstructionWellFormed ==
    /\ Processed
    /\ Escaped
    /\ Before.buf = << "á", "n" >>
    /\ Key = "s"
    /\ result = Replace(2, << "a", "n", "s" >>)

\* The slots p < q of b lie in one run of adjacent vowels.
SameVowelRun(b, p, q) == p < q /\ \A k \in p..q : IsVowel(At(b, k))

\* C35, as stated: after any key sequence a run of adjacent vowels of the
\* buffer holds at most one vowel with a tone.
OneToneInRun ==
    \A p \in 0..(keys - 1), q \in 0..(keys - 1) :
        SameVowelRun(buf, p, q) => ~(ToneOn(At(buf, p)) > 0 /\ ToneOn(At(buf, q)) > 0)

\* The slot a Replace starts at: the first one it deletes.
ReplaceTarget == Before.keys - result.backspaces

\* The entries of the buffer that were there before the last call (all of
\* them, or all but the key an escape appended), and how far put_char moved
\* them to the left (0 unless it compacted a full buffer).
KeptLen == IF keys = Before.keys THEN keys ELSE keys - 1

Shifted == Before.keys - KeptLen

\* C36: a key that returns Replace rewrites exactly one buffer slot, the target.
\* Every other entry, left of the target and between the target and the old
\* tail, keeps its character and case bit; the only other change is the
\* literal key an escape appends at the tail (which, on a full buffer, first
\* drops all but the last KEYS_MAINTAIN entries).
ReplaceRewritesOneSlot ==
    (Processed /\ result.kind = "Replace") =>
        /\ ReplaceTarget \in 0..(Before.keys - 1)
        /\ keys # Before.keys =>
              /\ Escaped
              /\ At(buf, keys - 1) = Key
              /\ lower_case[keys] = is_lowercase(Key)
              /\ \/ Shifted = 0
                 \/ Before.keys = KEY_BUFSIZE /\ KeptLen = KEYS_MAINTAIN
        /\ \A q \in 0..(KeptLen - 1) :
              IF q + Shifted = ReplaceTarget
              THEN At(buf, q) # At(Before.buf, ReplaceTarget)
              ELSE /\ At(buf, q) = At(Before.buf, q + Shifted)
                   /\ At(lower_case, q) = At(Before.lower_case, q + Shifted)

\* A tone placed across two consonants: one slot changes, three are replaced.
WitnessReplaceRewritesOneSlot ==
    /\ Processed
    /\ Key = "s"
    /\ Before.buf = << "n", "a", "n", "n" >>
    /\ buf = << "n", "á", "n", "n" >>
    /\ result = Replace(3, << "á", "n", "n" >>)

\* The buffer with its case bits, and the latches, of the engine e.
BufferOf(e) == << e.keys, e.buf, e.lower_case >>

LatchesOf(e) == << e.temp_viet_off, e.last_is_escape, e.last_w_converted >>

\* The configuration of the engine e.
ConfigurationOf(e) ==
    << e.input_method, e.vietnamese_mode, e.free_marking, e.modern_style,
       e.tone_next_to_vowel >>

\* The last call switched Vietnamese mode off, or on.
SwitchedOff ==
    \/ last.op = "set_vietnamese_mode" /\ last.arg = FALSE
    \/ last.op = "toggle_vietnamese_mode" /\ Before.vietnamese_mode

SwitchedOn ==
    \/ last.op = "set_vietnamese_mode" /\ last.arg = TRUE
    \/ last.op = "toggle_vietnamese_mode" /\ ~Before.vietnamese_mode

\* What C37 says of the state after one call.
ConfigurationFrame ==
    /\ SwitchedOff =>
          /\ ~vietnamese_mode
          /\ BufferOf(Self) = << 0, << >>, << >> >>
          /\ LatchesOf(Self) = << FALSE, FALSE, FALSE >>
    /\ SwitchedOn =>
          /\ vietnamese_mode
          /\ BufferOf(Self) = BufferOf(Before)
          /\ LatchesOf(Self) = LatchesOf(Before)
    /\ last.op \in {"set_input_method", "set_free_marking", "set_modern_style"} =>
          /\ BufferOf(Self) = BufferOf(Before)
          /\ LatchesOf(Self) = LatchesOf(Before)
    /\ last.op \in {"process", "clear_buf"} =>
          ConfigurationOf(Self) = ConfigurationOf(Before)

\* A toggle that follows a toggle puts the mode flag back.
SecondToggleRestores ==
    (/\ last.op = "toggle_vietnamese_mode"
     /\ last'.op = "toggle_vietnamese_mode"
     /\ budget' = budget - 1)
    => vietnamese_mode' = Before.vietnamese_mode

\* C37: set_vietnamese_mode(false), and toggle_vietnamese_mode when the mode is
\* on, empty the buffer and clear the latches; set_vietnamese_mode(true),
\* toggle_vietnamese_mode when the mode is off, set_input_method,
\* set_free_marking and set_modern_style leave buffer and latches unchanged;
\* process and clear_buf never change the input method, the mode flag,
\* free_marking, modern_style or tone_next_to_vowel; two toggles in a row
\* restore the mode flag.
SettersKeepTheirFrame == [](ConfigurationFrame) /\ [][SecondToggleRestores]_vars

\* The mode switched off on a latched, non-empty buffer.
WitnessSettersKeepTheirFrame ==
    /\ last.op = "set_vietnamese_mode"
    /\ last.arg = FALSE
    /\ Before.keys > 0
    /\ Before.temp_viet_off
    /\ keys = 0
    /\ ~temp_viet_off

\* C38: every GrabAction that grab_callback acts on for a key press is the
\* action the processor loop computed for that same key press; a reply that
\* arrives after the callback's wait timed out is never taken as the answer to
\* a later key press.
ReplyIsForSameKeyPress == acted.press = acted.reply

\* Some injection thread is between its two stores to INJECTING.
InjectionSending == \E i \in DOMAIN injections : injections[i].pc = "sending"

\* INJECTING is set while an injection thread is sending.
InjectingWhileSending == InjectionSending => INJECTING

\* C39: no key event synthesized by inject_replacement is sent to the engine,
\* and INJECTING is true for as long as an injection thread is still sending
\* events, also when two injections overlap.
SynthesizedKeysBypassEngine ==
    /\ \A i \in DOMAIN key_rx : ~key_rx[i].synthesized
    /\ InjectingWhileSending

====
